---------------------------- MODULE Spec2Model ----------------------------
(***************************************************************************)
(* A model of xrpl-py's canonical binary codec: the length prefix and the  *)
(* append-only serializer (binary_serializer.py), the object codec         *)
(* (serialized_dict.py) and the AccountID type (account_id.py).            *)
(*                                                                         *)
(* Bytes are sequences of naturals in 0..255.  A Python dict is a sequence *)
(* of <<key, value>> pairs with pairwise distinct keys, in insertion       *)
(* order.  A JSON value is a tagged record:                                *)
(*   [k |-> "none"]                 None                                   *)
(*   [k |-> "int",  n |-> 5]        an int                                 *)
(*   [k |-> "str",  s |-> "rA"]     a str (address, X-address, enum name)  *)
(*   [k |-> "hex",  h |-> <<..>>]   a str of upper-case hex digits         *)
(*   [k |-> "dec",  n |-> 10]       a str of decimal digits (drops)        *)
(*   [k |-> "dict", d |-> <<..>>]   a nested dict                          *)
(* An outcome of a call is a record with an err field: NoError, or the     *)
(* exception that left the call.                                           *)
(***************************************************************************)
EXTENDS Integers, Sequences, FiniteSets, TLC

VARIABLES
    pc,            \* position of the driver: which call has returned
    value,         \* the dict handed to SerializedDict.from_value
    only_signing,  \* from_value's only_signing argument
    result,        \* outcome of SerializedDict.from_value
    json,          \* outcome of SerializedDict.to_json on result's bytes
    buffer,        \* the bytes handed to the parser of from_parser
    reparsed,      \* outcome of SerializedDict.from_parser on buffer
    length,        \* argument of _encode_variable_length_prefix
    prefix,        \* outcome of _encode_variable_length_prefix
    written,       \* summary of write_length_encoded on a value of `length` bytes
    serializer,    \* a BinarySerializer: its bytesink and the calls made on it
    account,       \* an AccountID: what it was built from, its buffer, its JSON
    signing,       \* safe_sign_transaction: its position and its locals
    model          \* a transaction model: its fields and what _get_errors reports

vars == <<pc, value, only_signing, result, json, buffer, reparsed, length, prefix, written,
          serializer, account, signing, model>>

(***************************************************************************)
(* Exceptions                                                              *)
(***************************************************************************)
NoError == [exc |-> "none", msg |-> <<>>]

Raise(exc, msg) == [exc |-> exc, msg |-> msg]

NotCalled == [err |-> Raise("not called", <<>>), bytes |-> <<>>]

\* The parts of the state a driver does not use stay at these values.
IdleSerializer == [bytesink |-> <<>>]

IdleAccount == [pc |-> "idle"]

IdleSigning == [pc |-> "idle"]

\* No transaction model is being validated.
IdleModel == [pc |-> "idle"]

(***************************************************************************)
(* binary_serializer.py: the length prefix                                 *)
(***************************************************************************)
MAX_SINGLE_BYTE_LENGTH == 192

MAX_DOUBLE_BYTE_LENGTH == 12481

MAX_SECOND_BYTE_VALUE == 240

MAX_LENGTH_VALUE == 918744

\* How far past MAX_LENGTH_VALUE the lengths of the model go.
LenOver == 2

\* int.to_bytes(1, byteorder="big", signed=False): OverflowError outside 0..255.
ToByte(n) ==
    IF n >= 0 /\ n <= 255
    THEN [err |-> NoError, bytes |-> <<n>>]
    ELSE [err |-> Raise("OverflowError", <<"int too big to convert">>), bytes |-> <<>>]

\* b1 + b2 (+ b3) on the outcomes of to_bytes: the first exception wins.
JoinBytes(parts) ==
    LET bad == {i \in 1..Len(parts) : parts[i].err # NoError}
        cat[i \in 0..Len(parts)] ==
            IF i = 0 THEN <<>> ELSE cat[i - 1] \o parts[i].bytes
    IN  IF bad # {}
        THEN [err |-> parts[CHOOSE i \in bad : \A j \in bad : i <= j].err, bytes |-> <<>>]
        ELSE [err |-> NoError, bytes |-> cat[Len(parts)]]

\* A plausible slip: the two-byte tier compared with <= instead of <.
EncodePrefixInclusive(len) ==
    IF len <= MAX_SINGLE_BYTE_LENGTH
    THEN ToByte(len)
    ELSE IF len <= MAX_DOUBLE_BYTE_LENGTH
    THEN LET l == len - (MAX_SINGLE_BYTE_LENGTH + 1)
         IN  JoinBytes(<<ToByte((l \div 256) + (MAX_SINGLE_BYTE_LENGTH + 1)),
                         ToByte(l % 256)>>)
    ELSE IF len <= MAX_LENGTH_VALUE
    THEN LET l == len - MAX_DOUBLE_BYTE_LENGTH
         IN  JoinBytes(<<ToByte((MAX_SECOND_BYTE_VALUE + 1) + (l \div 65536)),
                         ToByte((l \div 256) % 256),
                         ToByte(l % 256)>>)
    ELSE [err |-> Raise("ValueError", <<"VariableLength field must be <= 918744 bytes long">>),
          bytes |-> <<>>]

\* A plausible slip: the "+ 1" of the two-byte tier's first byte forgotten.
EncodePrefixFirstByteLow(len) ==
    IF len <= MAX_SINGLE_BYTE_LENGTH
    THEN ToByte(len)
    ELSE IF len < MAX_DOUBLE_BYTE_LENGTH
    THEN LET l == len - (MAX_SINGLE_BYTE_LENGTH + 1)
         IN  JoinBytes(<<ToByte((l \div 256) + MAX_SINGLE_BYTE_LENGTH),
                         ToByte(l % 256)>>)
    ELSE IF len <= MAX_LENGTH_VALUE
    THEN LET l == len - MAX_DOUBLE_BYTE_LENGTH
         IN  JoinBytes(<<ToByte((MAX_SECOND_BYTE_VALUE + 1) + (l \div 65536)),
                         ToByte((l \div 256) % 256),
                         ToByte(l % 256)>>)
    ELSE [err |-> Raise("ValueError", <<"VariableLength field must be <= 918744 bytes long">>),
          bytes |-> <<>>]

\* A plausible slip: the last tier never rejects (no upper limit).
EncodePrefixNoLimit(len) ==
    IF len <= MAX_SINGLE_BYTE_LENGTH
    THEN ToByte(len)
    ELSE IF len < MAX_DOUBLE_BYTE_LENGTH
    THEN LET l == len - (MAX_SINGLE_BYTE_LENGTH + 1)
         IN  JoinBytes(<<ToByte((l \div 256) + (MAX_SINGLE_BYTE_LENGTH + 1)),
                         ToByte(l % 256)>>)
    ELSE LET l == len - MAX_DOUBLE_BYTE_LENGTH
         IN  [err |-> NoError,
              bytes |-> <<((MAX_SECOND_BYTE_VALUE + 1) + (l \div 65536)) % 256,
                          (l \div 256) % 256, l % 256>>]

\* _encode_variable_length_prefix(length); >> 8 is \div 256, & 0xFF is % 256.
EncodeVariableLengthPrefix(len) ==
    IF len <= MAX_SINGLE_BYTE_LENGTH
    THEN ToByte(len)
    ELSE IF len < MAX_DOUBLE_BYTE_LENGTH
    THEN LET l == len - (MAX_SINGLE_BYTE_LENGTH + 1)
         IN  JoinBytes(<<ToByte((l \div 256) + (MAX_SINGLE_BYTE_LENGTH + 1)),
                         ToByte(l % 256)>>)
    ELSE IF len <= MAX_LENGTH_VALUE
    THEN LET l == len - MAX_DOUBLE_BYTE_LENGTH
         IN  JoinBytes(<<ToByte((MAX_SECOND_BYTE_VALUE + 1) + (l \div 65536)),
                         ToByte((l \div 256) % 256),
                         ToByte(l % 256)>>)
    ELSE [err |-> Raise("ValueError", <<"VariableLength field must be <= 918744 bytes long">>),
          bytes |-> <<>>]

(***************************************************************************)
(* binary_serializer.py: BinarySerializer.  A method takes the bytesink    *)
(* and returns the bytesink it leaves behind and the exception, if any.    *)
(***************************************************************************)
\* BinarySerializer.__init__
NewSink == <<>>

\* BinarySerializer.append
SinkAppend(sink, bytes_object) == sink \o bytes_object

\* A plausible slip: the value written before its length prefix.
WriteLengthEncodedValueFirst(sink, valueBytes) ==
    LET length_prefix == EncodeVariableLengthPrefix(Len(valueBytes))
    IN  IF length_prefix.err # NoError
        THEN [err |-> length_prefix.err, sink |-> sink]
        ELSE [err |-> NoError, sink |-> (sink \o valueBytes) \o length_prefix.bytes]

\* BinarySerializer.write_length_encoded: the prefix is computed before the
\* sink is touched, so a failure leaves the sink as it was on entry.
WriteLengthEncoded(sink, valueBytes) ==
    LET length_prefix == EncodeVariableLengthPrefix(Len(valueBytes))
    IN  IF length_prefix.err # NoError
        THEN [err |-> length_prefix.err, sink |-> sink]
        ELSE [err |-> NoError, sink |-> (sink \o length_prefix.bytes) \o valueBytes]

\* BinarySerializer.write_field_and_value: the header is in the sink before
\* the value is looked at.
WriteFieldAndValue(sink, field, valueBytes) ==
    LET withHeader == sink \o field.header
    IN  IF field.is_variable_length_encoded
        THEN WriteLengthEncoded(withHeader, valueBytes)
        ELSE [err |-> NoError, sink |-> withHeader \o valueBytes]


(***************************************************************************)
(* The field registry (definitions), consumed only: name -> FieldInstance. *)
(* The entries are those of the ledger's definitions file for the fields   *)
(* the model uses; ordinal is type_code << 16 | field_code.                *)
(***************************************************************************)
\* FieldHeader.__bytes__: 1 to 3 bytes from (type_code, field_code).
FieldHeaderBytes(type_code, field_code) ==
    IF type_code < 16
    THEN IF field_code < 16
         THEN <<type_code * 16 + field_code>>
         ELSE <<type_code * 16, field_code>>
    ELSE IF field_code < 16
         THEN <<field_code, type_code>>
         ELSE <<0, type_code, field_code>>

FieldInstance(name, type, type_code, field_code, is_serialized, is_signing, is_vl) ==
    [name |-> name, type |-> type, type_code |-> type_code, field_code |-> field_code,
     ordinal |-> type_code * 65536 + field_code,
     is_serialized |-> is_serialized, is_signing |-> is_signing,
     is_variable_length_encoded |-> is_vl,
     header |-> FieldHeaderBytes(type_code, field_code)]

Registry ==
    {FieldInstance("LedgerEntryType",   "UInt16",         1,   1, TRUE,  TRUE,  FALSE),
     FieldInstance("TransactionType",   "UInt16",         1,   2, TRUE,  TRUE,  FALSE),
     FieldInstance("SourceTag",         "UInt32",         2,   3, TRUE,  TRUE,  FALSE),
     FieldInstance("Sequence",          "UInt32",         2,   4, TRUE,  TRUE,  FALSE),
     FieldInstance("DestinationTag",    "UInt32",         2,  14, TRUE,  TRUE,  FALSE),
     FieldInstance("OfferSequence",     "UInt32",         2,  25, TRUE,  TRUE,  FALSE),
     FieldInstance("hash",              "Hash256",        5, 257, FALSE, FALSE, FALSE),
     FieldInstance("Fee",               "Amount",         6,   8, TRUE,  TRUE,  FALSE),
     FieldInstance("SigningPubKey",     "Blob",           7,   3, TRUE,  TRUE,  TRUE),
     FieldInstance("TxnSignature",      "Blob",           7,   4, TRUE,  FALSE, TRUE),
     FieldInstance("MemoData",          "Blob",           7,  13, TRUE,  TRUE,  TRUE),
     FieldInstance("Account",           "AccountID",      8,   1, TRUE,  TRUE,  TRUE),
     FieldInstance("Destination",       "AccountID",      8,   3, TRUE,  TRUE,  TRUE),
     FieldInstance("RegularKey",        "AccountID",      8,   8, TRUE,  TRUE,  TRUE),
     FieldInstance("ObjectEndMarker",   "SerializedDict", 14,  1, TRUE,  TRUE,  FALSE),
     FieldInstance("Memo",              "SerializedDict", 14, 10, TRUE,  TRUE,  FALSE),
     FieldInstance("TransactionResult", "UInt8",          16,  3, TRUE,  TRUE,  FALSE)}

FieldNames == {f.name : f \in Registry}

\* get_field_instance(name) for a registered name (None otherwise: see IsRegistered).
GetFieldInstance(name) == CHOOSE f \in Registry : f.name = name

IsRegistered(name) == name \in FieldNames

\* The enumerated codes: transaction type, transaction result, ledger entry type.
TransactionTypeCodes == {<<"Payment", 0>>, <<"EscrowCreate", 1>>, <<"OfferCreate", 7>>}

TransactionResultCodes == {<<"tesSUCCESS", 0>>, <<"tecCLAIM", 100>>}

LedgerEntryTypeCodes == {<<"AccountRoot", 97>>, <<"Offer", 111>>}

\* get_*_code(name): a table lookup, KeyError for anything that is no name of the table.
EnumCode(table, v) ==
    IF v.k = "str" /\ \E e \in table : e[1] = v.s
    THEN [err |-> NoError, val |-> [k |-> "int", n |-> (CHOOSE e \in table : e[1] = v.s)[2]]]
    ELSE [err |-> Raise("KeyError", <<"unknown name">>), val |-> v]

\* get_*_name(code): the reverse lookup.
EnumName(table, v) ==
    IF v.k = "int" /\ \E e \in table : e[2] = v.n
    THEN [err |-> NoError, val |-> [k |-> "str", s |-> (CHOOSE e \in table : e[2] = v.n)[1]]]
    ELSE [err |-> Raise("KeyError", <<"unknown code">>), val |-> v]

(***************************************************************************)
(* The address codec, consumed only: classic addresses and X-addresses as  *)
(* tables between the strings and what they decode to.                     *)
(***************************************************************************)
AccountLength == 20

Payload(seed) == [i \in 1..AccountLength |-> (seed * i) % 256]

ClassicAddresses ==
    {<<"rrrrrrrrrrrrrrrrrrrrrhoLvTp", Payload(0)>>,
     <<"rAlice", Payload(7)>>,
     <<"rBob", Payload(11)>>,
     <<"rCarol", Payload(13)>>,
     <<"rDave", Payload(17)>>,
     <<"rErin", Payload(19)>>,
     <<"rFrank", Payload(23)>>,
     <<"rGrace", Payload(29)>>,
     <<"rHeidi", Payload(31)>>,
     <<"rIvan", Payload(37)>>,
     <<"rJudy", Payload(41)>>,
     <<"rMallory", Payload(255)>>}

IsClassicAddress(s) == \E a \in ClassicAddresses : a[1] = s

\* decode_classic_address(s): the 20-byte payload, or the address codec's exception.
DecodeClassicAddress(s) ==
    IF IsClassicAddress(s)
    THEN [err |-> NoError, bytes |-> (CHOOSE a \in ClassicAddresses : a[1] = s)[2]]
    ELSE [err |-> Raise("XRPLAddressCodecException", <<"invalid classic address">>),
          bytes |-> <<>>]

\* encode_classic_address(bytes)
EncodeClassicAddress(bytes) ==
    IF \E a \in ClassicAddresses : a[2] = bytes
    THEN (CHOOSE a \in ClassicAddresses : a[2] = bytes)[1]
    ELSE "r(unlisted)"

NoneV == [k |-> "none"]

IntV(n) == [k |-> "int", n |-> n]

StrV(s) == [k |-> "str", s |-> s]

\* X-address string -> (classic_address, tag, is_test_network).
XAddresses ==
    {<<"X-Alice",      "rAlice", NoneV,   FALSE>>,
     <<"X-Alice-tag7", "rAlice", IntV(7), FALSE>>,
     <<"X-Bob-tag9",   "rBob",   IntV(9), FALSE>>}

\* is_valid_xaddress(s)
IsValidXAddress(s) == \E x \in XAddresses : x[1] = s

\* xaddress_to_classic_address(s), for a valid X-address
XAddressToClassicAddress(s) == CHOOSE x \in XAddresses : x[1] = s

(***************************************************************************)
(* Python dicts: insertion-ordered sequences of <<key, value>> pairs.      *)
(***************************************************************************)
DictHas(d, key) == \E i \in 1..Len(d) : d[i][1] = key

DictGet(d, key) == d[CHOOSE i \in 1..Len(d) : d[i][1] = key][2]

DictKeys(d) == {d[i][1] : i \in 1..Len(d)}

\* d[key] = v: an existing key keeps its position, a new key goes last.
DictSet(d, key, v) ==
    IF DictHas(d, key)
    THEN [i \in 1..Len(d) |-> IF d[i][1] = key THEN <<key, v>> ELSE d[i]]
    ELSE Append(d, <<key, v>>)

\* d.update(other): d[key] = v for each item of other, in other's order.
DictUpdate(d, other) ==
    LET upd[i \in 0..Len(other)] ==
            IF i = 0 THEN d ELSE DictSet(upd[i - 1], other[i][1], other[i][2])
    IN  upd[Len(other)]

IsStr(v) == v.k \in {"str", "hex", "dec"}

(***************************************************************************)
(* The primitive serialized types, consumed only: from_value and to_json   *)
(* of the fixed-width integers, the native amount and the blob.            *)
(***************************************************************************)
\* 256^w for w in 0..3 (the values of the model stay below 2^31).
Pow256(w) == IF w = 0 THEN 1 ELSE IF w = 1 THEN 256 ELSE IF w = 2 THEN 65536 ELSE 16777216

\* n.to_bytes(width, byteorder="big")
BigEndian(n, width) ==
    [i \in 1..width |-> IF width - i > 3 THEN 0 ELSE (n \div Pow256(width - i)) % 256]

FromBigEndian(bytes) ==
    LET acc[i \in 0..Len(bytes)] == IF i = 0 THEN 0 ELSE acc[i - 1] * 256 + bytes[i]
    IN  acc[Len(bytes)]

UIntWidth(type) == IF type = "UInt8" THEN 1 ELSE IF type = "UInt16" THEN 2 ELSE 4

TypeError(type) ==
    Raise("XRPLBinaryCodecException", <<"Invalid type to construct", type>>)

\* UInt8/16/32.from_value
UIntFromValue(type, v) ==
    IF v.k # "int"
    THEN [err |-> TypeError(type), bytes |-> <<>>]
    ELSE IF v.n < 0 \/ (UIntWidth(type) < 4 /\ v.n >= Pow256(UIntWidth(type)))
    THEN [err |-> Raise("OverflowError", <<"int too big to convert">>), bytes |-> <<>>]
    ELSE [err |-> NoError, bytes |-> BigEndian(v.n, UIntWidth(type))]

\* Amount.from_value of a native amount: 8 bytes, the 0x40 bit set for "positive".
AmountFromValue(v) ==
    IF v.k # "dec"
    THEN [err |-> TypeError("Amount"), bytes |-> <<>>]
    ELSE [err |-> NoError, bytes |-> <<64>> \o SubSeq(BigEndian(v.n, 8), 2, 8)]

\* bytes.fromhex on a sequence of hex digits 0..15
FromHex(h) == [i \in 1..(Len(h) \div 2) |-> h[2 * i - 1] * 16 + h[2 * i]]

\* bytes.hex().upper()
ToHex(bytes) ==
    [i \in 1..(2 * Len(bytes)) |->
        IF i % 2 = 1 THEN bytes[(i + 1) \div 2] \div 16 ELSE bytes[i \div 2] % 16]

\* Blob.from_value
BlobFromValue(v) ==
    IF ~IsStr(v)
    THEN [err |-> TypeError("Blob"), bytes |-> <<>>]
    ELSE IF v.k # "hex" \/ Len(v.h) % 2 = 1
    THEN [err |-> Raise("ValueError", <<"non-hexadecimal number found in fromhex()">>),
          bytes |-> <<>>]
    ELSE [err |-> NoError, bytes |-> FromHex(v.h)]

(***************************************************************************)
(* account_id.py: AccountID                                                *)
(***************************************************************************)
IsEmptyStr(v) == (v.k = "str" /\ v.s = "") \/ (v.k = "hex" /\ v.h = <<>>)

\* _HEX_REGEX.fullmatch(value): 40 upper-case hex digits
MatchesHexRegex(v) == v.k = "hex" /\ Len(v.h) = 2 * AccountLength

\* AccountID.__init__(buffer=None)
AccountIDInit == [i \in 1..AccountLength |-> 0]

\* AccountID.from_value
AccountIDFromValue(v) ==
    IF ~IsStr(v)
    THEN [err |-> TypeError("AccountID"), bytes |-> <<>>]
    ELSE IF IsEmptyStr(v)
    THEN [err |-> NoError, bytes |-> AccountIDInit]
    ELSE IF MatchesHexRegex(v)
    THEN [err |-> NoError, bytes |-> FromHex(v.h)]
    ELSE IF v.k = "str"
    THEN DecodeClassicAddress(v.s)
    ELSE [err |-> Raise("XRPLAddressCodecException", <<"invalid classic address">>),
          bytes |-> <<>>]

\* A plausible slip: the hex form of the parent type instead of the address.
AccountIDToJsonHex(bytes) == [k |-> "hex", h |-> ToHex(bytes)]

\* AccountID.to_json
AccountIDToJson(bytes) == StrV(EncodeClassicAddress(bytes))

(***************************************************************************)
(* serialized_dict.py: SerializedDict.from_value                           *)
(***************************************************************************)
_OBJECT_END_MARKER_BYTE == <<225>>

_OBJECT_END_MARKER == "ObjectEndMarker"

_SERIALIZED_DICT == "SerializedDict"

_DESTINATION == "Destination"

_ACCOUNT == "Account"

_SOURCE_TAG == "SourceTag"

_DEST_TAG == "DestinationTag"

AmbiguousTag(field) ==
    Raise("XRPLBinaryCodecException", <<field, "cannot have an associated tag">>)

ConflictingSourceTag ==
    Raise("XRPLBinaryCodecException", <<"Cannot have Account X-Address and SourceTag">>)

ConflictingDestTag ==
    Raise("XRPLBinaryCodecException",
          <<"Cannot have Destination X-Address and DestinationTag">>)

\* A plausible slip: a tag under another field is dropped instead of refused.
HandleXAddressLenient(field, xaddress) ==
    LET x == XAddressToClassicAddress(xaddress)
        classic_address == x[2]
        tag == x[3]
        tag_name == IF field = _DESTINATION THEN _DEST_TAG ELSE _SOURCE_TAG
    IN  IF (field = _DESTINATION \/ field = _ACCOUNT) /\ tag # NoneV
        THEN [err |-> NoError, d |-> <<<<field, StrV(classic_address)>>, <<tag_name, tag>>>>]
        ELSE [err |-> NoError, d |-> <<<<field, StrV(classic_address)>>>>]

\* _handle_xaddress(field, xaddress): the dict it returns, or its exception.
HandleXAddress(field, xaddress) ==
    LET x == XAddressToClassicAddress(xaddress)
        classic_address == x[2]
        tag == x[3]
        tag_name == IF field = _DESTINATION THEN _DEST_TAG ELSE _SOURCE_TAG
    IN  IF field # _DESTINATION /\ field # _ACCOUNT /\ tag # NoneV
        THEN [err |-> AmbiguousTag(field), d |-> <<>>]
        ELSE IF tag # NoneV
        THEN [err |-> NoError, d |-> <<<<field, StrV(classic_address)>>, <<tag_name, tag>>>>]
        ELSE [err |-> NoError, d |-> <<<<field, StrV(classic_address)>>>>]

\* A plausible slip: one of the three enumerated-code fields forgotten.
StrToEnumTwoFields(field, v) ==
    IF field = "TransactionType" THEN EnumCode(TransactionTypeCodes, v)
    ELSE IF field = "TransactionResult" THEN EnumCode(TransactionResultCodes, v)
    ELSE [err |-> NoError, val |-> v]

\* _str_to_enum(field, value)
StrToEnum(field, v) ==
    IF field = "TransactionType" THEN EnumCode(TransactionTypeCodes, v)
    ELSE IF field = "TransactionResult" THEN EnumCode(TransactionResultCodes, v)
    ELSE IF field = "LedgerEntryType" THEN EnumCode(LedgerEntryTypeCodes, v)
    ELSE [err |-> NoError, val |-> v]

\* _enum_to_str(field, value)
EnumToStr(field, v) ==
    IF field = "TransactionType" THEN EnumName(TransactionTypeCodes, v)
    ELSE IF field = "TransactionResult" THEN EnumName(TransactionResultCodes, v)
    ELSE IF field = "LedgerEntryType" THEN EnumName(LedgerEntryTypeCodes, v)
    ELSE [err |-> NoError, val |-> v]

\* A plausible slip: an explicit tag equal to the X-address's tag is let through.
DecodeItemTagsDiffer(val, d, k, v) ==
    IF v.k = "str" /\ IsValidXAddress(v.s)
    THEN LET handled == HandleXAddress(k, v.s)
         IN  IF handled.err # NoError
             THEN [err |-> handled.err, d |-> d]
             ELSE IF /\ DictHas(handled.d, _SOURCE_TAG)
                     /\ DictGet(handled.d, _SOURCE_TAG) # NoneV
                     /\ DictHas(val, _SOURCE_TAG)
                     /\ DictGet(val, _SOURCE_TAG) # NoneV
                     /\ DictGet(val, _SOURCE_TAG) # DictGet(handled.d, _SOURCE_TAG)
             THEN [err |-> ConflictingSourceTag, d |-> d]
             ELSE IF /\ DictHas(handled.d, _DEST_TAG)
                     /\ DictGet(handled.d, _DEST_TAG) # NoneV
                     /\ DictHas(val, _DEST_TAG)
                     /\ DictGet(val, _DEST_TAG) # NoneV
                     /\ DictGet(val, _DEST_TAG) # DictGet(handled.d, _DEST_TAG)
             THEN [err |-> ConflictingDestTag, d |-> d]
             ELSE [err |-> NoError, d |-> DictUpdate(d, handled.d)]
    ELSE LET e == StrToEnum(k, v)
         IN  IF e.err # NoError
             THEN [err |-> e.err, d |-> d]
             ELSE [err |-> NoError, d |-> DictSet(d, k, e.val)]

\* One turn of from_value's first loop on the item (k, v) of `value`, with
\* xaddress_decoded = d so far.
DecodeItem(val, d, k, v) ==
    IF v.k = "str" /\ IsValidXAddress(v.s)
    THEN LET handled == HandleXAddress(k, v.s)
         IN  IF handled.err # NoError
             THEN [err |-> handled.err, d |-> d]
             ELSE IF /\ DictHas(handled.d, _SOURCE_TAG)
                     /\ DictGet(handled.d, _SOURCE_TAG) # NoneV
                     /\ DictHas(val, _SOURCE_TAG)
                     /\ DictGet(val, _SOURCE_TAG) # NoneV
             THEN [err |-> ConflictingSourceTag, d |-> d]
             ELSE IF /\ DictHas(handled.d, _DEST_TAG)
                     /\ DictGet(handled.d, _DEST_TAG) # NoneV
                     /\ DictHas(val, _DEST_TAG)
                     /\ DictGet(val, _DEST_TAG) # NoneV
             THEN [err |-> ConflictingDestTag, d |-> d]
             ELSE [err |-> NoError, d |-> DictUpdate(d, handled.d)]
    ELSE LET e == StrToEnum(k, v)
         IN  IF e.err # NoError
             THEN [err |-> e.err, d |-> d]
             ELSE [err |-> NoError, d |-> DictSet(d, k, e.val)]

\* from_value's first loop: xaddress_decoded, or the first exception.
DecodeXAddresses(val) ==
    LET step[i \in 0..Len(val)] ==
            IF i = 0 THEN [err |-> NoError, d |-> <<>>]
            ELSE IF step[i - 1].err # NoError THEN step[i - 1]
            ELSE DecodeItem(val, step[i - 1].d, val[i][1], val[i][2])
    IN  step[Len(val)]

\* from_value's second loop: the FieldInstances of the keys that are
\* registered, not None and serialized, in xaddress_decoded's order.
SurvivingFields(d) ==
    LET keep(i) == /\ IsRegistered(d[i][1])
                   /\ d[i][2] # NoneV
                   /\ GetFieldInstance(d[i][1]).is_serialized
        pick[i \in 0..Len(d)] ==
            IF i = 0 THEN <<>>
            ELSE IF keep(i) THEN Append(pick[i - 1], GetFieldInstance(d[i][1]))
            ELSE pick[i - 1]
    IN  pick[Len(d)]

\* A plausible slip: the sort left out, the fields stay in dict order.
SortSkipped(fields) == fields

\* sorted_keys.sort(key=lambda x: x.ordinal): a stable ascending sort.
SortByOrdinal(fields) ==
    LET insert(s, f) ==
            LET p == Cardinality({j \in 1..Len(s) : s[j].ordinal <= f.ordinal})
            IN  (SubSeq(s, 1, p) \o <<f>>) \o SubSeq(s, p + 1, Len(s))
        sorted[i \in 0..Len(fields)] ==
            IF i = 0 THEN <<>> ELSE insert(sorted[i - 1], fields[i])
    IN  sorted[Len(fields)]

\* A plausible slip: the only_signing filter left out.
FilterSigningSkipped(fields, only_sign) == fields

\* if only_signing: sorted_keys = list(filter(lambda x: x.is_signing, sorted_keys))
FilterSigning(fields, only_sign) ==
    IF only_sign THEN SelectSeq(fields, LAMBDA f : f.is_signing) ELSE fields

\* "Error processing <field>: <original message>" with the exception's class kept.
Annotate(field, err) == Raise(err.exc, <<"Error processing", field.name>> \o err.msg)

RECURSIVE FromValue(_, _)

\* field.associated_type.from_value(v)
TypeFromValue(type, v) ==
    IF type \in {"UInt8", "UInt16", "UInt32"} THEN UIntFromValue(type, v)
    ELSE IF type = "Amount" THEN AmountFromValue(v)
    ELSE IF type = "Blob" THEN BlobFromValue(v)
    ELSE IF type = "AccountID" THEN AccountIDFromValue(v)
    ELSE IF type = _SERIALIZED_DICT
    THEN IF v.k = "dict" THEN FromValue(v.d, FALSE)
         ELSE [err |-> Raise("AttributeError", <<"object has no attribute 'items'">>),
               bytes |-> <<>>]
    ELSE [err |-> TypeError(type), bytes |-> <<>>]

\* A plausible slip: the end marker after a nested object left out.
WriteFieldNoMarker(sink, d, field) ==
    LET associated_value == TypeFromValue(field.type, DictGet(d, field.name))
        wrote == WriteFieldAndValue(sink, field, associated_value.bytes)
    IN  IF associated_value.err # NoError
        THEN [err |-> IF associated_value.err.exc = "XRPLBinaryCodecException"
                      THEN Annotate(field, associated_value.err)
                      ELSE associated_value.err,
              sink |-> sink]
        ELSE wrote

\* One turn of from_value's last loop: the sink after `field`, or the exception.
\* Only an XRPLBinaryCodecException is caught and annotated.
WriteField(sink, d, field) ==
    LET associated_value == TypeFromValue(field.type, DictGet(d, field.name))
        wrote == WriteFieldAndValue(sink, field, associated_value.bytes)
    IN  IF associated_value.err # NoError
        THEN [err |-> IF associated_value.err.exc = "XRPLBinaryCodecException"
                      THEN Annotate(field, associated_value.err)
                      ELSE associated_value.err,
              sink |-> sink]
        ELSE IF wrote.err # NoError
        THEN wrote
        ELSE IF field.type = _SERIALIZED_DICT
        THEN [err |-> NoError, sink |-> SinkAppend(wrote.sink, _OBJECT_END_MARKER_BYTE)]
        ELSE wrote

\* from_value's last loop over sorted_keys.
WriteFields(d, sorted_keys) ==
    LET step[i \in 0..Len(sorted_keys)] ==
            IF i = 0 THEN [err |-> NoError, sink |-> NewSink]
            ELSE IF step[i - 1].err # NoError THEN step[i - 1]
            ELSE WriteField(step[i - 1].sink, d, sorted_keys[i])
    IN  step[Len(sorted_keys)]

\* SerializedDict.from_value(value, only_signing): the bytes of the
\* SerializedDict it returns, or the exception that leaves it.
FromValue(val, only_sign) ==
    LET decoded == DecodeXAddresses(val)
        sorted_keys == FilterSigning(SortByOrdinal(SurvivingFields(decoded.d)), only_sign)
        wrote == WriteFields(decoded.d, sorted_keys)
    IN  IF decoded.err # NoError
        THEN [err |-> decoded.err, bytes |-> <<>>]
        ELSE IF wrote.err # NoError
        THEN [err |-> wrote.err, bytes |-> <<>>]
        ELSE [err |-> NoError, bytes |-> wrote.sink]

(***************************************************************************)
(* The binary parser, consumed only: a cursor (buf, pos) with pos bytes    *)
(* consumed.  A read returns what it read and the cursor after it.         *)
(***************************************************************************)
OutOfRange == Raise("XRPLBinaryCodecException", <<"read past the end of the buffer">>)

\* BinaryParser.is_end()
IsEnd(buf, pos) == pos >= Len(buf)

\* BinaryParser.read_field(): 1 to 3 header bytes, then the registry lookup by code.
ReadField(buf, pos) ==
    LET b1 == buf[pos + 1]
        t1 == b1 \div 16
        f1 == b1 % 16
        posT == IF t1 = 0 THEN pos + 2 ELSE pos + 1
        posF == IF f1 = 0 THEN posT + 1 ELSE posT
        type_code == IF t1 = 0 THEN buf[pos + 2] ELSE t1
        field_code == IF f1 = 0 THEN buf[posT + 1] ELSE f1
    IN  IF posF > Len(buf)
        THEN [err |-> OutOfRange, pos |-> pos]
        ELSE IF (t1 = 0 /\ type_code < 16) \/ (f1 = 0 /\ field_code < 16)
        THEN [err |-> Raise("XRPLBinaryCodecException", <<"Cannot read field header">>),
              pos |-> pos]
        ELSE IF ~\E f \in Registry : f.type_code = type_code /\ f.field_code = field_code
        THEN [err |-> Raise("XRPLBinaryCodecException", <<"Unknown field">>), pos |-> pos]
        ELSE [err |-> NoError, pos |-> posF,
              field |-> CHOOSE f \in Registry :
                            f.type_code = type_code /\ f.field_code = field_code]

\* BinaryParser.read_length_prefix(): the decode rule symmetric to the encoder's.
ReadLengthPrefix(buf, pos) ==
    LET byte1 == buf[pos + 1]
        size == IF byte1 <= MAX_SINGLE_BYTE_LENGTH THEN 1
                ELSE IF byte1 <= MAX_SECOND_BYTE_VALUE THEN 2
                ELSE 3
    IN  IF pos + 1 > Len(buf) \/ pos + size > Len(buf)
        THEN [err |-> OutOfRange, pos |-> pos, len |-> 0]
        ELSE IF size = 1
        THEN [err |-> NoError, pos |-> pos + 1, len |-> byte1]
        ELSE IF size = 2
        THEN [err |-> NoError, pos |-> pos + 2,
              len |-> (MAX_SINGLE_BYTE_LENGTH + 1)
                      + (byte1 - (MAX_SINGLE_BYTE_LENGTH + 1)) * 256 + buf[pos + 2]]
        ELSE IF byte1 <= 254
        THEN [err |-> NoError, pos |-> pos + 3,
              len |-> MAX_DOUBLE_BYTE_LENGTH
                      + (byte1 - (MAX_SECOND_BYTE_VALUE + 1)) * 65536
                      + buf[pos + 2] * 256 + buf[pos + 3]]
        ELSE [err |-> Raise("XRPLBinaryCodecException", <<"Length prefix must contain 1 to 3 bytes">>),
              pos |-> pos, len |-> 0]

\* BinaryParser.read(n)
Read(buf, pos, n) ==
    IF pos + n > Len(buf)
    THEN [err |-> OutOfRange, pos |-> pos, bytes |-> <<>>]
    ELSE [err |-> NoError, pos |-> pos + n, bytes |-> SubSeq(buf, pos + 1, pos + n)]

RECURSIVE FromParserLoop(_, _, _)

\* SerializedDict.from_parser(parser): the bytes of the SerializedDict it returns
\* and the cursor it leaves.
FromParser(buf, pos) == FromParserLoop(buf, pos, NewSink)

\* BinaryParser.read_field_value(field): the bytes of the value read.
ReadFieldValue(buf, pos, field) ==
    IF field.is_variable_length_encoded
    THEN LET lp == ReadLengthPrefix(buf, pos)
         IN  IF lp.err # NoError
             THEN [err |-> lp.err, pos |-> pos, bytes |-> <<>>]
             ELSE Read(buf, lp.pos, lp.len)
    ELSE IF field.type \in {"UInt8", "UInt16", "UInt32"}
    THEN Read(buf, pos, UIntWidth(field.type))
    ELSE IF field.type = "Amount"
    THEN IF pos + 1 <= Len(buf) /\ buf[pos + 1] >= 128
         THEN Read(buf, pos, 48)
         ELSE Read(buf, pos, 8)
    ELSE IF field.type = _SERIALIZED_DICT
    THEN FromParser(buf, pos)
    ELSE Read(buf, pos, 32)

\* A plausible slip: the nested object's end marker is not written back.
FromParserStepNoMarker(buf, field, v, sink) ==
    LET wrote == WriteFieldAndValue(sink, field, v.bytes)
    IN  IF v.err # NoError THEN [err |-> v.err, sink |-> sink] ELSE wrote

\* The body of from_parser's loop after read_field: read the value, write the
\* field and the value, and the end marker after a nested object.
FromParserStep(buf, field, v, sink) ==
    LET wrote == WriteFieldAndValue(sink, field, v.bytes)
    IN  IF v.err # NoError THEN [err |-> v.err, sink |-> sink]
        ELSE IF wrote.err # NoError THEN wrote
        ELSE IF field.type = _SERIALIZED_DICT
        THEN [err |-> NoError, sink |-> SinkAppend(wrote.sink, _OBJECT_END_MARKER_BYTE)]
        ELSE wrote

\* from_parser's loop: while not parser.is_end(), until the end marker.
FromParserLoop(buf, pos, sink) ==
    IF IsEnd(buf, pos)
    THEN [err |-> NoError, pos |-> pos, bytes |-> sink]
    ELSE LET f == ReadField(buf, pos)
         IN  IF f.err # NoError
             THEN [err |-> f.err, pos |-> pos, bytes |-> <<>>]
             ELSE IF f.field.name = _OBJECT_END_MARKER
             THEN [err |-> NoError, pos |-> f.pos, bytes |-> sink]
             ELSE LET v == ReadFieldValue(buf, f.pos, f.field)
                      stepped == FromParserStep(buf, f.field, v, sink)
                  IN  IF stepped.err # NoError
                      THEN [err |-> stepped.err, pos |-> pos, bytes |-> <<>>]
                      ELSE FromParserLoop(buf, v.pos, stepped.sink)

(***************************************************************************)
(* serialized_dict.py: SerializedDict.to_json                              *)
(***************************************************************************)
RECURSIVE ToJsonLoop(_, _, _)

\* SerializedDict.to_json() of the object with these bytes
ToJson(bytes) == ToJsonLoop(bytes, 0, <<>>)

\* value.to_json() of the typed value with these bytes
TypeToJson(type, bytes) ==
    IF type \in {"UInt8", "UInt16", "UInt32"}
    THEN [err |-> NoError, val |-> IntV(FromBigEndian(bytes))]
    ELSE IF type = "Amount"
    THEN [err |-> NoError,
          val |-> [k |-> "dec", n |-> FromBigEndian(SubSeq(bytes, 5, 8))]]
    ELSE IF type = "Blob"
    THEN [err |-> NoError, val |-> [k |-> "hex", h |-> ToHex(bytes)]]
    ELSE IF type = "AccountID"
    THEN [err |-> NoError, val |-> AccountIDToJson(bytes)]
    ELSE IF type = _SERIALIZED_DICT
    THEN LET inner == ToJson(bytes)
         IN  [err |-> inner.err, val |-> [k |-> "dict", d |-> inner.d]]
    ELSE [err |-> NoError, val |-> [k |-> "hex", h |-> ToHex(bytes)]]

\* A plausible slip: the enumerated code is not translated back to its name.
ToJsonItemNoEnum(field, v, accumulator) ==
    LET json_value == TypeToJson(field.type, v.bytes)
    IN  IF v.err # NoError THEN [err |-> v.err, d |-> accumulator]
        ELSE IF json_value.err # NoError THEN [err |-> json_value.err, d |-> accumulator]
        ELSE [err |-> NoError, d |-> DictSet(accumulator, field.name, json_value.val)]

\* The body of to_json's loop after read_field:
\* accumulator[field.name] = _enum_to_str(field.name, read_field_value(field).to_json())
ToJsonItem(field, v, accumulator) ==
    LET json_value == TypeToJson(field.type, v.bytes)
        named == EnumToStr(field.name, json_value.val)
    IN  IF v.err # NoError THEN [err |-> v.err, d |-> accumulator]
        ELSE IF json_value.err # NoError THEN [err |-> json_value.err, d |-> accumulator]
        ELSE IF named.err # NoError THEN [err |-> named.err, d |-> accumulator]
        ELSE [err |-> NoError, d |-> DictSet(accumulator, field.name, named.val)]

\* to_json's loop: while not parser.is_end(), until the end marker.
ToJsonLoop(buf, pos, accumulator) ==
    IF IsEnd(buf, pos)
    THEN [err |-> NoError, d |-> accumulator]
    ELSE LET f == ReadField(buf, pos)
         IN  IF f.err # NoError
             THEN [err |-> f.err, d |-> <<>>]
             ELSE IF f.field.name = _OBJECT_END_MARKER
             THEN [err |-> NoError, d |-> accumulator]
             ELSE LET v == ReadFieldValue(buf, f.pos, f.field)
                      item == ToJsonItem(f.field, v, accumulator)
                  IN  IF item.err # NoError
                      THEN [err |-> item.err, d |-> <<>>]
                      ELSE ToJsonLoop(buf, v.pos, item.d)

(***************************************************************************)
(* The inputs of the model and the driver: one call of from_value on a     *)
(* dict drawn from the catalog, then to_json or from_parser on the bytes.  *)
(***************************************************************************)
\* The largest number of entries of an input dict.
MaxEntries == 4

Hex(h) == [k |-> "hex", h |-> h]

Dec(n) == [k |-> "dec", n |-> n]

Dict(d) == [k |-> "dict", d |-> d]

\* Entries of plain transactions: every field type, a nested object, a field
\* that is not serialized, a key that is not registered, signing and
\* non-signing fields.
PlainCatalog ==
    {<<"Account", StrV("rAlice")>>,
     <<"Account", Hex(ToHex(Payload(11)))>>,
     <<"Destination", StrV("rBob")>>,
     <<"Sequence", IntV(5)>>,
     <<"Fee", Dec(10)>>,
     <<"TransactionType", StrV("Payment")>>,
     <<"TransactionType", StrV("OfferCreate")>>,
     <<"SigningPubKey", Hex(<<0, 3, 10, 11>>)>>,
     <<"TxnSignature", Hex(<<13, 14>>)>>,
     <<"TxnSignature", StrV("X-Bob-tag9")>>,
     <<"Memo", Dict(<<<<"MemoData", Hex(<<12, 10>>)>>, <<"Sequence", IntV(1)>>>>)>>,
     <<"hash", Hex(<<1, 2>>)>>,
     <<"Foo", IntV(1)>>}

\* Entries around X-addresses and tags.
TagCatalog ==
    {<<"Account", StrV("rAlice")>>,
     <<"Account", StrV("X-Alice")>>,
     <<"Account", StrV("X-Alice-tag7")>>,
     <<"SourceTag", NoneV>>,
     <<"SourceTag", IntV(7)>>,
     <<"SourceTag", IntV(8)>>,
     <<"Destination", StrV("X-Bob-tag9")>>,
     <<"DestinationTag", NoneV>>,
     <<"DestinationTag", IntV(9)>>,
     <<"RegularKey", StrV("X-Alice")>>,
     <<"RegularKey", StrV("X-Bob-tag9")>>,
     <<"Sequence", IntV(5)>>}

\* The dicts of at most MaxEntries entries of a catalog, in every insertion order.
Dicts(catalog) ==
    UNION {{d \in [1..n -> catalog] : \A i, j \in 1..n : i < j => d[i][1] # d[j][1]}
           : n \in 0..MaxEntries}

InitOver(catalog) ==
    /\ pc = "start"
    /\ value \in Dicts(catalog)
    /\ only_signing \in BOOLEAN
    /\ result = NotCalled
    /\ json = [err |-> Raise("not called", <<>>), d |-> <<>>]
    /\ buffer = <<>>
    /\ reparsed = [err |-> Raise("not called", <<>>), bytes |-> <<>>, pos |-> 0]
    /\ length = 0
    /\ prefix = NotCalled
    /\ written = [err |-> Raise("not called", <<>>), sinkLen |-> 0]
    /\ serializer = IdleSerializer
    /\ account = IdleAccount
    /\ signing = IdleSigning
    /\ model = IdleModel

Init == InitOver(PlainCatalog)

InitTags == InitOver(TagCatalog)

\* SerializedDict.from_value(value, only_signing)
CallFromValue ==
    /\ pc = "start"
    /\ result' = FromValue(value, only_signing)
    /\ pc' = "encoded"
    /\ UNCHANGED <<value, only_signing, json, buffer, reparsed, length, prefix, written>>
    /\ UNCHANGED <<serializer, account, signing, model>>

\* SerializedDict.to_json() on the object from_value returned
CallToJson ==
    /\ pc = "encoded"
    /\ result.err = NoError
    /\ json' = ToJson(result.bytes)
    /\ pc' = "json"
    /\ UNCHANGED <<value, only_signing, result, buffer, reparsed, length, prefix, written>>
    /\ UNCHANGED <<serializer, account, signing, model>>

\* What may follow an object's bytes in a parser's buffer: nothing (a top-level
\* object), or the object's end marker and the rest of the enclosing object.
Tails == {<<>>, _OBJECT_END_MARKER_BYTE, _OBJECT_END_MARKER_BYTE \o <<36, 0, 0, 0, 1>>}

\* SerializedDict.from_parser(BinaryParser(buffer)) on the bytes from_value
\* returned, alone or followed by a tail
CallFromParser ==
    /\ pc = "encoded"
    /\ result.err = NoError
    /\ \E tail \in Tails : buffer' = result.bytes \o tail
    /\ reparsed' = FromParser(buffer', 0)
    /\ pc' = "reparsed"
    /\ UNCHANGED <<value, only_signing, result, json, length, prefix, written>>
    /\ UNCHANGED <<serializer, account, signing, model>>

Next == CallFromValue \/ CallToJson \/ CallFromParser

Spec == Init /\ [][Next]_vars

SpecTags == InitTags /\ [][Next]_vars

\* Entries around nested objects: an object in an object, an empty object, a
\* field that sorts after the nested object, values that hold the byte 0xE1.
NestedCatalog ==
    {<<"Memo", Dict(<<<<"MemoData", Hex(<<12, 10>>)>>, <<"Sequence", IntV(1)>>>>)>>,
     <<"Memo", Dict(<<>>)>>,
     <<"Memo", Dict(<<<<"Memo", Dict(<<<<"MemoData", Hex(<<14, 1>>)>>>>)>>>>)>>,
     <<"TransactionResult", StrV("tesSUCCESS")>>,
     <<"Account", StrV("rAlice")>>,
     <<"SigningPubKey", Hex(<<14, 1>>)>>,
     <<"Sequence", IntV(225)>>,
     <<"Fee", Dec(10)>>}

InitNested == InitOver(NestedCatalog)

SpecNested == InitNested /\ [][Next]_vars

\* Entries around the enumerated codes: names of the three tables, a name of
\* no table, and fields of other types (an int equal to a code, strings).
EnumCatalog ==
    {<<"TransactionType", StrV("Payment")>>,
     <<"TransactionType", StrV("EscrowCreate")>>,
     <<"TransactionType", StrV("OfferCreate")>>,
     <<"TransactionType", StrV("NoSuchType")>>,
     <<"TransactionResult", StrV("tesSUCCESS")>>,
     <<"TransactionResult", StrV("tecCLAIM")>>,
     <<"LedgerEntryType", StrV("AccountRoot")>>,
     <<"LedgerEntryType", StrV("Offer")>>,
     <<"Sequence", IntV(7)>>,
     <<"OfferSequence", IntV(100)>>,
     <<"Account", StrV("rAlice")>>,
     <<"SigningPubKey", Hex(<<0, 7>>)>>}

InitEnum == InitOver(EnumCatalog)

SpecEnum == InitEnum /\ [][Next]_vars

\* Entries whose typed value cannot be built, at the top level and inside a
\* nested object, next to entries that can: a string that is no address, a
\* value of the wrong type.
ErrorCatalog ==
    {<<"Account", StrV("rAlice")>>,
     <<"Account", StrV("rNotAnAddress")>>,
     <<"Account", IntV(3)>>,
     <<"Sequence", IntV(5)>>,
     <<"Sequence", StrV("five")>>,
     <<"SigningPubKey", Hex(<<0, 3>>)>>,
     <<"Fee", Dec(10)>>,
     <<"Memo", Dict(<<<<"Destination", IntV(3)>>>>)>>,
     <<"Memo", Dict(<<<<"Destination", StrV("rNotAnAddress")>>>>)>>,
     <<"Memo", Dict(<<<<"MemoData", Hex(<<12, 10>>)>>>>)>>}

InitError == InitOver(ErrorCatalog)

SpecError == InitError /\ [][Next]_vars

(***************************************************************************)
(* The driver of from_parser on buffers that need not be canonical: the    *)
(* encodings of single fields, concatenated in any order.                  *)
(***************************************************************************)
\* The largest number of fields of an input buffer.
MaxPieces == 3

PieceCatalog ==
    {<<"Sequence", IntV(5)>>,
     <<"TransactionType", StrV("Payment")>>,
     <<"Fee", Dec(10)>>,
     <<"SigningPubKey", Hex(<<0, 3>>)>>,
     <<"Account", StrV("rAlice")>>,
     <<"Memo", Dict(<<<<"MemoData", Hex(<<12, 10>>)>>>>)>>}

\* The bytes of one field: header, length prefix if any, value, end marker if nested.
Piece(entry) == FromValue(<<entry>>, FALSE).bytes

\* The concatenation of the pieces of a sequence of entries.
Concat(entries) ==
    LET cat[i \in 0..Len(entries)] ==
            IF i = 0 THEN <<>> ELSE cat[i - 1] \o Piece(entries[i])
    IN  cat[Len(entries)]

\* Buffers of at most MaxPieces distinct fields, in every order.
Buffers ==
    UNION {{Concat(es) : es \in {e \in [1..n -> PieceCatalog] :
                                    \A i, j \in 1..n : i < j => e[i] # e[j]}}
           : n \in 0..MaxPieces}

InitBuffer ==
    /\ pc = "start"
    /\ value = <<>>
    /\ only_signing = FALSE
    /\ result = NotCalled
    /\ json = [err |-> Raise("not called", <<>>), d |-> <<>>]
    /\ buffer \in Buffers
    /\ reparsed = [err |-> Raise("not called", <<>>), bytes |-> <<>>, pos |-> 0]
    /\ length = 0
    /\ prefix = NotCalled
    /\ written = [err |-> Raise("not called", <<>>), sinkLen |-> 0]
    /\ serializer = IdleSerializer
    /\ account = IdleAccount
    /\ signing = IdleSigning
    /\ model = IdleModel

\* SerializedDict.from_parser(BinaryParser(buffer))
CallFromParserOnBuffer ==
    /\ pc = "start"
    /\ reparsed' = FromParser(buffer, 0)
    /\ pc' = "reparsed"
    /\ UNCHANGED <<value, only_signing, result, json, buffer, length, prefix, written>>
    /\ UNCHANGED <<serializer, account, signing, model>>

\* SerializedDict.to_json() on the object from_parser returned
CallToJsonOfParsed ==
    /\ pc = "reparsed"
    /\ reparsed.err = NoError
    /\ json' = ToJson(reparsed.bytes)
    /\ pc' = "json"
    /\ UNCHANGED <<value, only_signing, result, buffer, reparsed, length, prefix, written>>
    /\ UNCHANGED <<serializer, account, signing, model>>

NextBuffer == CallFromParserOnBuffer \/ CallToJsonOfParsed

SpecBuffer == InitBuffer /\ [][NextBuffer]_vars

(***************************************************************************)
(* The driver of the length prefix: one call of                            *)
(* _encode_variable_length_prefix on every length up to LenOver past the   *)
(* maximum, then write_length_encoded of a value of that many zero bytes   *)
(* into a fresh serializer, at the lengths where the encoding changes.     *)
(***************************************************************************)
Lengths == 0..(MAX_LENGTH_VALUE + LenOver)

WriteLengths ==
    {0, MAX_SINGLE_BYTE_LENGTH, MAX_SINGLE_BYTE_LENGTH + 1, MAX_DOUBLE_BYTE_LENGTH - 1,
     MAX_DOUBLE_BYTE_LENGTH, MAX_LENGTH_VALUE}
    \cup ((MAX_LENGTH_VALUE + 1)..(MAX_LENGTH_VALUE + LenOver))

Zeros(n) == [i \in 1..n |-> 0]

InitLen ==
    /\ pc = "start"
    /\ value = <<>>
    /\ only_signing = FALSE
    /\ result = NotCalled
    /\ json = [err |-> Raise("not called", <<>>), d |-> <<>>]
    /\ buffer = <<>>
    /\ reparsed = [err |-> Raise("not called", <<>>), bytes |-> <<>>, pos |-> 0]
    /\ length \in Lengths
    /\ prefix = NotCalled
    /\ written = [err |-> Raise("not called", <<>>), sinkLen |-> 0]
    /\ serializer = IdleSerializer
    /\ account = IdleAccount
    /\ signing = IdleSigning
    /\ model = IdleModel

\* _encode_variable_length_prefix(length)
CallEncodePrefix ==
    /\ pc = "start"
    /\ prefix' = EncodeVariableLengthPrefix(length)
    /\ pc' = "prefixed"
    /\ UNCHANGED <<value, only_signing, result, json, buffer, reparsed, length, written>>
    /\ UNCHANGED <<serializer, account, signing, model>>

\* BinarySerializer().write_length_encoded(value) with len(value) = length
CallWriteLengthEncoded ==
    /\ pc = "prefixed"
    /\ length \in WriteLengths
    /\ LET wrote == WriteLengthEncoded(NewSink, Zeros(length))
       IN  written' = [err |-> wrote.err, sinkLen |-> Len(wrote.sink)]
    /\ pc' = "written"
    /\ UNCHANGED <<value, only_signing, result, json, buffer, reparsed, length, prefix>>
    /\ UNCHANGED <<serializer, account, signing, model>>

NextLen == CallEncodePrefix \/ CallWriteLengthEncoded

SpecLen == InitLen /\ [][NextLen]_vars

(***************************************************************************)
(* transaction/main.py: safe_sign_transaction, one action per statement.   *)
(* encode, encode_for_signing and sign are consumed: encode is the hex of  *)
(* from_value's bytes, encode_for_signing the same with only_signing, sign *)
(* an opaque function of the message and the key.                          *)
(***************************************************************************)
\* The variables of the codec's drivers.
codecVars == <<pc, value, only_signing, result, json, buffer, reparsed, length, prefix, written>>

\* No codec driver runs.
CodecIdle ==
    /\ pc = "idle"
    /\ value = <<>>
    /\ only_signing = FALSE
    /\ result = NotCalled
    /\ json = [err |-> Raise("not called", <<>>), d |-> <<>>]
    /\ buffer = <<>>
    /\ reparsed = [err |-> Raise("not called", <<>>), bytes |-> <<>>, pos |-> 0]
    /\ length = 0
    /\ prefix = NotCalled
    /\ written = [err |-> Raise("not called", <<>>), sinkLen |-> 0]

\* _key_to_tx_json(key): the words of the snake_case key capitalized and
\* joined, "Id" turned into "ID"; as a table over the keys of the model.
KeyToTxJson(key) ==
    IF key = "account" THEN "Account"
    ELSE IF key = "source_tag" THEN "SourceTag"
    ELSE IF key = "sequence" THEN "Sequence"
    ELSE IF key = "fee" THEN "Fee"
    ELSE IF key = "transaction_type" THEN "TransactionType"
    ELSE IF key = "signing_pub_key" THEN "SigningPubKey"
    ELSE IF key = "txn_signature" THEN "TxnSignature"
    ELSE IF key = "memo" THEN "Memo"
    ELSE IF key = "memo_data" THEN "MemoData"
    ELSE key

RECURSIVE TransactionJsonToBinaryCodecForm(_)

\* _value_to_tx_json(value): a dict is reformatted, anything else is kept.
ValueToTxJson(v) ==
    IF v.k = "dict" THEN Dict(TransactionJsonToBinaryCodecForm(v.d)) ELSE v

\* transaction_json_to_binary_codec_form(dictionary)
TransactionJsonToBinaryCodecForm(dictionary) ==
    [i \in 1..Len(dictionary) |->
        <<KeyToTxJson(dictionary[i][1]), ValueToTxJson(dictionary[i][2])>>]

\* bytes.hex().upper() of an object's bytes, or the exception that prevented them
HexOf(outcome) == [err |-> outcome.err, hex |-> ToHex(outcome.bytes)]

\* encode(json): the hex string of the object's bytes
Encode(tx_json) == HexOf(FromValue(tx_json, FALSE))

\* encode_for_signing(json): the hex string of the signing fields' bytes
EncodeForSigning(tx_json) == HexOf(FromValue(tx_json, TRUE))

\* sign(message, private_key): opaque; a short digest of the message and the
\* key, as the hex string the signature field takes.
Sign(message, priv_key) ==
    LET sum[i \in 0..Len(message)] ==
            IF i = 0 THEN priv_key ELSE (sum[i - 1] * 3 + message[i]) % 65536
    IN  Hex(ToHex(<<sum[Len(message)] \div 256, sum[Len(message)] % 256>>))

\* Transactions as Transaction.to_dict() returns them, keys in snake_case: a
\* plain payment, an X-address with and against a tag, a stale signature and
\* a stale key, a nested object.
TransactionCatalog ==
    {<<"account", StrV("rAlice")>>,
     <<"account", StrV("X-Alice-tag7")>>,
     <<"source_tag", IntV(7)>>,
     <<"sequence", IntV(5)>>,
     <<"fee", Dec(10)>>,
     <<"transaction_type", StrV("Payment")>>,
     <<"signing_pub_key", Hex(<<15, 15>>)>>,
     <<"txn_signature", Hex(<<13, 14>>)>>,
     <<"memo", Dict(<<<<"memo_data", Hex(<<12, 10>>)>>>>)>>}

Wallets ==
    {[pub_key |-> Hex(<<0, 3, 10, 11>>), priv_key |-> 17, next_sequence_num |-> 1],
     [pub_key |-> Hex(<<0, 2, 12, 13>>), priv_key |-> 99, next_sequence_num |-> 8]}

InitSign ==
    /\ CodecIdle
    /\ serializer = IdleSerializer
    /\ account = IdleAccount
    /\ model = IdleModel
    /\ \E transaction \in Dicts(TransactionCatalog), wallet \in Wallets :
           signing = [pc |-> "called", transaction |-> transaction, wallet |-> wallet,
                      transaction_json |-> <<>>, serialized_for_signing |-> <<>>,
                      signature |-> Hex(<<>>), tx_blob |-> <<>>, err |-> NoError]

\* A plausible slip: the wallet's public key is not put into the JSON.
SignPrepareNoPubKey ==
    /\ signing.pc = "called"
    /\ signing' = [signing EXCEPT
           !.pc = "keyed",
           !.wallet.next_sequence_num = @ + 1,
           !.transaction_json = TransactionJsonToBinaryCodecForm(signing.transaction)]
    /\ UNCHANGED <<codecVars, serializer, account, model>>

\* wallet.next_sequence_num += 1; transaction_json = ...(transaction.to_dict());
\* transaction_json["SigningPubKey"] = wallet.pub_key
SignPrepare ==
    /\ signing.pc = "called"
    /\ signing' = [signing EXCEPT
           !.pc = "keyed",
           !.wallet.next_sequence_num = @ + 1,
           !.transaction_json =
               DictSet(TransactionJsonToBinaryCodecForm(signing.transaction),
                       "SigningPubKey", signing.wallet.pub_key)]
    /\ UNCHANGED <<codecVars, serializer, account, model>>

\* The locals after encode_for_signing: its hex string is kept, its exception
\* leaves safe_sign_transaction.
Serialized(encoded) ==
    IF encoded.err # NoError
    THEN [signing EXCEPT !.pc = "raised", !.err = encoded.err]
    ELSE [signing EXCEPT !.pc = "serialized", !.serialized_for_signing = encoded.hex]

\* The locals after encode: its hex string is returned, its exception leaves
\* safe_sign_transaction.
Returned(encoded) ==
    IF encoded.err # NoError
    THEN [signing EXCEPT !.pc = "raised", !.err = encoded.err]
    ELSE [signing EXCEPT !.pc = "returned", !.tx_blob = encoded.hex]

\* serialized_for_signing = encode_for_signing(transaction_json)
SignSerialize ==
    /\ signing.pc = "keyed"
    /\ signing' = Serialized(EncodeForSigning(signing.transaction_json))
    /\ UNCHANGED <<codecVars, serializer, account, model>>

\* serialized_bytes = bytes.fromhex(serialized_for_signing);
\* signature = sign(serialized_bytes, wallet.priv_key)
SignSign ==
    /\ signing.pc = "serialized"
    /\ signing' = [signing EXCEPT
           !.pc = "signed",
           !.signature = Sign(FromHex(signing.serialized_for_signing),
                              signing.wallet.priv_key)]
    /\ UNCHANGED <<codecVars, serializer, account, model>>

\* transaction_json["TxnSignature"] = signature
SignAttach ==
    /\ signing.pc = "signed"
    /\ signing' = [signing EXCEPT
           !.pc = "attached",
           !.transaction_json = DictSet(signing.transaction_json, "TxnSignature",
                                        signing.signature)]
    /\ UNCHANGED <<codecVars, serializer, account, model>>

\* return encode(transaction_json)
SignReturn ==
    /\ signing.pc = "attached"
    /\ signing' = Returned(Encode(signing.transaction_json))
    /\ UNCHANGED <<codecVars, serializer, account, model>>

NextSign == SignPrepare \/ SignSerialize \/ SignSign \/ SignAttach \/ SignReturn

SpecSign == InitSign /\ [][NextSign]_vars

(***************************************************************************)
(* One wallet signing one transaction after another: each transaction is   *)
(* built with sequence = wallet.next_sequence_num and handed to            *)
(* safe_sign_transaction; the caller goes on after a call that raised.     *)
(***************************************************************************)
\* The largest number of safe_sign_transaction calls on the wallet.
MaxSignCalls == 3

\* The transactions a caller builds at a given sequence number: two that
\* encode and one whose account no codec accepts.
TransactionsAt(sequence) ==
    {<<<<"account", StrV("rAlice")>>, <<"fee", Dec(10)>>,
       <<"sequence", IntV(sequence)>>>>,
     <<<<"account", StrV("rBob")>>, <<"sequence", IntV(sequence)>>,
       <<"transaction_type", StrV("Payment")>>>>,
     <<<<"account", StrV("rNotAnAddress")>>, <<"fee", Dec(10)>>,
       <<"sequence", IntV(sequence)>>>>}

\* signing.initial_sequence_num is the wallet's number before the first call;
\* signing.outcomes lists, for every call that has ended and been followed by
\* another, whether it returned a blob and the sequence of its transaction.
InitWallet ==
    /\ CodecIdle
    /\ serializer = IdleSerializer
    /\ account = IdleAccount
    /\ model = IdleModel
    /\ \E wallet \in Wallets :
           \E transaction \in TransactionsAt(wallet.next_sequence_num) :
               signing = [pc |-> "called", transaction |-> transaction,
                          wallet |-> wallet, transaction_json |-> <<>>,
                          serialized_for_signing |-> <<>>, signature |-> Hex(<<>>),
                          tx_blob |-> <<>>, err |-> NoError,
                          initial_sequence_num |-> wallet.next_sequence_num,
                          outcomes |-> <<>>]

\* The caller builds the next transaction at wallet.next_sequence_num and
\* calls safe_sign_transaction with the same wallet.
WalletNextCall ==
    /\ signing.pc \in {"returned", "raised"}
    /\ Len(signing.outcomes) + 1 < MaxSignCalls
    /\ \E transaction \in TransactionsAt(signing.wallet.next_sequence_num) :
           signing' = [signing EXCEPT
               !.pc = "called",
               !.transaction = transaction,
               !.transaction_json = <<>>,
               !.serialized_for_signing = <<>>,
               !.signature = Hex(<<>>),
               !.tx_blob = <<>>,
               !.err = NoError,
               !.outcomes = Append(@, [returned |-> signing.pc = "returned",
                                       sequence |-> DictGet(signing.transaction,
                                                            "sequence").n])]
    /\ UNCHANGED <<codecVars, serializer, account, model>>

NextWallet ==
    \/ SignPrepare
    \/ SignSerialize
    \/ SignSign
    \/ SignAttach
    \/ SignReturn
    \/ WalletNextCall

SpecWallet == InitWallet /\ [][NextWallet]_vars

(***************************************************************************)
(* The driver of one BinarySerializer: a sequence of append,               *)
(* write_length_encoded and write_field_and_value calls; a caller may go   *)
(* on after a call that raised.  A value is v.len bytes equal to v.byte.   *)
(***************************************************************************)
\* The largest number of calls on the serializer.
MaxCalls == 2

\* bytes(value) / value.to_byte_sink(...)
BytesOf(v) == [i \in 1..v.len |-> v.byte]

AppendInputs == {<<225>>, <<1, 2>>, <<>>}

LengthEncodedInputs ==
    {[byte |-> 9, len |-> 1], [byte |-> 0, len |-> 0], [byte |-> 7, len |-> 193],
     [byte |-> 0, len |-> MAX_LENGTH_VALUE + 1]}

FieldInputs ==
    {<<"Sequence", [byte |-> 5, len |-> 4]>>,
     <<"SigningPubKey", [byte |-> 3, len |-> 2]>>,
     <<"Account", [byte |-> 17, len |-> 20]>>,
     <<"Fee", [byte |-> 64, len |-> 8]>>,
     <<"MemoData", [byte |-> 0, len |-> MAX_LENGTH_VALUE + 1]>>}

InitSink ==
    /\ CodecIdle
    /\ account = IdleAccount
    /\ signing = IdleSigning
    /\ model = IdleModel
    /\ serializer = [bytesink |-> NewSink, before |-> NewSink, calls |-> <<>>]

\* The serializer after a call: the sink it left, the sink it found, and the
\* call with its outcome appended to the history.
AfterCall(op, field, v, bytes_object, outcome) ==
    [bytesink |-> outcome.sink,
     before |-> serializer.bytesink,
     calls |-> Append(serializer.calls,
                      [op |-> op, field |-> field, value |-> v, bytes_object |-> bytes_object,
                       err |-> outcome.err, end |-> Len(outcome.sink)])]

\* serializer.append(bytes_object)
SinkCallAppend ==
    /\ Len(serializer.calls) < MaxCalls
    /\ \E bytes_object \in AppendInputs :
           serializer' = AfterCall("append", "-", [byte |-> 0, len |-> 0], bytes_object,
                                   [err |-> NoError,
                                    sink |-> SinkAppend(serializer.bytesink, bytes_object)])
    /\ UNCHANGED <<codecVars, account, signing, model>>

\* serializer.write_length_encoded(value)
SinkCallWriteLengthEncoded ==
    /\ Len(serializer.calls) < MaxCalls
    /\ \E v \in LengthEncodedInputs :
           serializer' = AfterCall("write_length_encoded", "-", v, <<>>,
                                   WriteLengthEncoded(serializer.bytesink, BytesOf(v)))
    /\ UNCHANGED <<codecVars, account, signing, model>>

\* serializer.write_field_and_value(field, value)
SinkCallWriteFieldAndValue ==
    /\ Len(serializer.calls) < MaxCalls
    /\ \E fv \in FieldInputs :
           serializer' = AfterCall("write_field_and_value", fv[1], fv[2], <<>>,
                                   WriteFieldAndValue(serializer.bytesink,
                                                      GetFieldInstance(fv[1]), BytesOf(fv[2])))
    /\ UNCHANGED <<codecVars, account, signing, model>>

NextSink == SinkCallAppend \/ SinkCallWriteLengthEncoded \/ SinkCallWriteFieldAndValue

SpecSink == InitSink /\ [][NextSink]_vars

(***************************************************************************)
(* The driver of AccountID: built from a buffer (or from none), turned     *)
(* into JSON and read back; or built from a string and turned into JSON.   *)
(***************************************************************************)
\* The 20-byte buffers of the model: those the address table names.
AccountBuffers == {a[2] : a \in ClassicAddresses}

\* The strings (and one non-string) handed to AccountID.from_value.
AccountValues ==
    {StrV(a[1]) : a \in ClassicAddresses}
    \cup {[k |-> "hex", h |-> ToHex(b)] : b \in AccountBuffers}
    \cup {StrV(""), StrV("rNotAnAddress"), [k |-> "hex", h |-> <<10, 11>>], IntV(3)}

NoAccount == [err |-> Raise("not called", <<>>), bytes |-> <<>>]

InitAccount ==
    /\ CodecIdle
    /\ serializer = IdleSerializer
    /\ signing = IdleSigning
    /\ model = IdleModel
    /\ \/ \E b \in AccountBuffers \cup {<<>>} :
              account = [pc |-> "start", from |-> "buffer", given_buffer |-> b,
                         given_value |-> NoneV, built |-> NoAccount,
                         json |-> NoneV, reread |-> NoAccount]
       \/ \E v \in AccountValues :
              account = [pc |-> "start", from |-> "value", given_buffer |-> <<>>,
                         given_value |-> v, built |-> NoAccount,
                         json |-> NoneV, reread |-> NoAccount]

\* AccountID(buffer), AccountID() for no buffer
AccountConstruct ==
    /\ account.pc = "start"
    /\ account.from = "buffer"
    /\ account' = [account EXCEPT
           !.pc = "built",
           !.built = [err |-> NoError,
                      bytes |-> IF account.given_buffer = <<>>
                                THEN AccountIDInit ELSE account.given_buffer]]
    /\ UNCHANGED <<codecVars, serializer, signing, model>>

\* AccountID.from_value(value)
AccountCallFromValue ==
    /\ account.pc = "start"
    /\ account.from = "value"
    /\ account' = [account EXCEPT !.pc = "built",
                                  !.built = AccountIDFromValue(account.given_value)]
    /\ UNCHANGED <<codecVars, serializer, signing, model>>

\* account_id.to_json()
AccountCallToJson ==
    /\ account.pc = "built"
    /\ account.built.err = NoError
    /\ account' = [account EXCEPT !.pc = "json",
                                  !.json = AccountIDToJson(account.built.bytes)]
    /\ UNCHANGED <<codecVars, serializer, signing, model>>

\* AccountID.from_value(account_id.to_json())
AccountReread ==
    /\ account.pc = "json"
    /\ account' = [account EXCEPT !.pc = "reread",
                                  !.reread = AccountIDFromValue(account.json)]
    /\ UNCHANGED <<codecVars, serializer, signing, model>>

NextAccount == AccountConstruct \/ AccountCallFromValue \/ AccountCallToJson \/ AccountReread

SpecAccount == InitAccount /\ [][NextAccount]_vars

(***************************************************************************)
(* Transaction models: SignerListSet and EscrowCreate.  An Optional field  *)
(* is NoneV or its value; a list is SomeList(l).  A model is built, then   *)
(* _get_errors runs on it.                                                 *)
(***************************************************************************)
SomeList(l) == [k |-> "list", l |-> l]

\* super()._get_errors() of a model whose required fields are all set
SuperGetErrors == <<>>

\* The largest signer list _get_errors accepts.
MaxSignerEntries == 8

\* The messages are written without the backquotes around the field names.
\* A plausible slip: a quorum equal to the sum of the weights is rejected too.
SignerListSetGetErrorsStrictQuorum(self) ==
    LET deleting ==
            IF self.signer_quorum = 0 /\ self.signer_entries # NoneV
            THEN DictSet(SuperGetErrors, "signer_list_set",
                    "Must not include a signer_entries value if the signer list is being deleted.")
            ELSE SuperGetErrors
        keeping ==
            IF self.signer_quorum # 0 /\ self.signer_entries = NoneV
            THEN DictSet(deleting, "signer_list_set",
                    "Must have a value of zero for signer_quorum if the signer list is being deleted.")
            ELSE deleting
    IN  IF self.signer_entries = NoneV THEN keeping
        ELSE LET entries == self.signer_entries.l
                 quorum ==
                     IF self.signer_quorum <= 0
                     THEN DictSet(keeping, "signer_quorum",
                    "signer_quorum must be greater than or equal to 0.")
                     ELSE keeping
             IN  IF Len(entries) < 1 \/ Len(entries) > MaxSignerEntries
                 THEN DictSet(quorum, "signer_entries",
                    "signer_entries must have at least 1 member and no more than 8 members. If this transaction is deleting the SignerList, then this parameter must be omitted.")
                 ELSE LET loop[i \in 0..Len(entries)] ==
                              IF i = 0
                              THEN [errors |-> quorum, account_set |-> {},
                                    signer_weight_sum |-> 0]
                              ELSE [errors |->
                                        IF entries[i].account = self.account
                                        THEN DictSet(loop[i - 1].errors,
                                                     "signer_entries",
                    "The account submitting the transaction cannot appear in a signer entry.")
                                        ELSE loop[i - 1].errors,
                                    account_set |->
                                        loop[i - 1].account_set \cup {entries[i].account},
                                    signer_weight_sum |->
                                        loop[i - 1].signer_weight_sum
                                            + entries[i].signer_weight]
                          after == loop[Len(entries)]
                          weighed ==
                              IF self.signer_quorum >= after.signer_weight_sum
                              THEN DictSet(after.errors, "signer_quorum",
                    "signer_quorum must be less than or equal to the sum of the SignerWeight values in the signer_entries list.")
                              ELSE after.errors
                      IN  IF Cardinality(after.account_set) # Len(entries)
                          THEN DictSet(weighed, "signer_entries",
                    "An account cannot appear multiple times in the list of signer entries.")
                          ELSE weighed

\* SignerListSet._get_errors(self): the dict of errors, keys in insertion order
SignerListSetGetErrors(self) ==
    LET deleting ==
            IF self.signer_quorum = 0 /\ self.signer_entries # NoneV
            THEN DictSet(SuperGetErrors, "signer_list_set",
                    "Must not include a signer_entries value if the signer list is being deleted.")
            ELSE SuperGetErrors
        keeping ==
            IF self.signer_quorum # 0 /\ self.signer_entries = NoneV
            THEN DictSet(deleting, "signer_list_set",
                    "Must have a value of zero for signer_quorum if the signer list is being deleted.")
            ELSE deleting
    IN  IF self.signer_entries = NoneV THEN keeping
        ELSE LET entries == self.signer_entries.l
                 quorum ==
                     IF self.signer_quorum <= 0
                     THEN DictSet(keeping, "signer_quorum",
                    "signer_quorum must be greater than or equal to 0.")
                     ELSE keeping
             IN  IF Len(entries) < 1 \/ Len(entries) > MaxSignerEntries
                 THEN DictSet(quorum, "signer_entries",
                    "signer_entries must have at least 1 member and no more than 8 members. If this transaction is deleting the SignerList, then this parameter must be omitted.")
                 ELSE LET loop[i \in 0..Len(entries)] ==
                              IF i = 0
                              THEN [errors |-> quorum, account_set |-> {},
                                    signer_weight_sum |-> 0]
                              ELSE [errors |->
                                        IF entries[i].account = self.account
                                        THEN DictSet(loop[i - 1].errors,
                                                     "signer_entries",
                    "The account submitting the transaction cannot appear in a signer entry.")
                                        ELSE loop[i - 1].errors,
                                    account_set |->
                                        loop[i - 1].account_set \cup {entries[i].account},
                                    signer_weight_sum |->
                                        loop[i - 1].signer_weight_sum
                                            + entries[i].signer_weight]
                          after == loop[Len(entries)]
                          weighed ==
                              IF self.signer_quorum > after.signer_weight_sum
                              THEN DictSet(after.errors, "signer_quorum",
                    "signer_quorum must be less than or equal to the sum of the SignerWeight values in the signer_entries list.")
                              ELSE after.errors
                      IN  IF Cardinality(after.account_set) # Len(entries)
                          THEN DictSet(weighed, "signer_entries",
                    "An account cannot appear multiple times in the list of signer entries.")
                          ELSE weighed

\* The longest signer list of which every variant is tried.
MaxShortEntries == 2

SignerNames ==
    <<"rBob", "rCarol", "rDave", "rErin", "rFrank", "rGrace", "rHeidi", "rIvan", "rJudy">>

SignerEntry(account_, weight) == [account |-> account_, signer_weight |-> weight]

\* Every list of up to MaxShortEntries entries over three accounts and two
\* weights.
ShortSignerLists ==
    UNION {[1..n -> {SignerEntry(a, w) : a \in {"rAlice", "rBob", "rCarol"},
                                         w \in {0, 2}}] :
           n \in 0..MaxShortEntries}

\* Lists around the largest size: distinct accounts of weight 1, or one entry
\* replaced by a repeated account or by the account of the submitter.
LongSignerLists ==
    {[i \in 1..n |-> SignerEntry(IF i = j THEN a ELSE SignerNames[i], 1)] :
        n \in (MaxSignerEntries - 1)..(MaxSignerEntries + 1),
        j \in 0..2, a \in {"rBob", "rAlice"}}

SignerListSets ==
    {[account |-> a, signer_quorum |-> q, signer_entries |-> e] :
        a \in {"rAlice", "rZoe"},
        q \in {-1, 0, 1, 2, 4, 5, 7, 8, 9, 10},
        e \in {NoneV} \cup {SomeList(l) : l \in ShortSignerLists \cup LongSignerLists}}

InitSignerList ==
    /\ CodecIdle
    /\ serializer = IdleSerializer
    /\ account = IdleAccount
    /\ signing = IdleSigning
    /\ \E self \in SignerListSets :
           model = [pc |-> "built", self |-> self, errors |-> <<>>]

\* errors = self._get_errors() on the SignerListSet just built
SignerListSetValidate ==
    /\ model.pc = "built"
    /\ model' = [model EXCEPT !.pc = "validated",
                              !.errors = SignerListSetGetErrors(model.self)]
    /\ UNCHANGED <<codecVars, serializer, account, signing>>

SpecSignerList == InitSignerList /\ [][SignerListSetValidate]_vars

\* A plausible slip: equal times are let through.
EscrowCreateGetErrorsEqualAllowed(self) ==
    IF /\ self.cancel_after # NoneV
       /\ self.finish_after # NoneV
       /\ self.finish_after.n > self.cancel_after.n
    THEN DictSet(SuperGetErrors, "EscrowCreate", "The finish_after time must be before the cancel_after time.")
    ELSE SuperGetErrors

\* EscrowCreate._get_errors(self)
EscrowCreateGetErrors(self) ==
    IF /\ self.cancel_after # NoneV
       /\ self.finish_after # NoneV
       /\ self.finish_after.n >= self.cancel_after.n
    THEN DictSet(SuperGetErrors, "EscrowCreate", "The finish_after time must be before the cancel_after time.")
    ELSE SuperGetErrors

\* Unset, small times (0 included), and the times of the all-fields test.
EscrowTimes == {NoneV} \cup {IntV(t) : t \in {0, 1, 2, 533171558, 533257958}}

EscrowCreates ==
    {[account |-> "rAlice", amount |-> "10000",
      destination |-> "rsA2LpzuawewSBQXkiju3YQTMzW13pAAdW",
      destination_tag |-> tag, cancel_after |-> cancel, finish_after |-> finish] :
        tag \in {NoneV, IntV(23480)}, cancel \in EscrowTimes, finish \in EscrowTimes}

InitEscrow ==
    /\ CodecIdle
    /\ serializer = IdleSerializer
    /\ account = IdleAccount
    /\ signing = IdleSigning
    /\ \E self \in EscrowCreates :
           model = [pc |-> "built", self |-> self, errors |-> <<>>]

\* errors = self._get_errors() on the EscrowCreate just built
EscrowCreateValidate ==
    /\ model.pc = "built"
    /\ model' = [model EXCEPT !.pc = "validated",
                              !.errors = EscrowCreateGetErrors(model.self)]
    /\ UNCHANGED <<codecVars, serializer, account, signing>>

SpecEscrow == InitEscrow /\ [][EscrowCreateValidate]_vars

(***************************************************************************)
(* The length prefix: C3, C4                                               *)
(***************************************************************************)
\* The reference encoding of the serialization format, in the claim's words.
ReferencePrefix(L) ==
    IF L <= 192 THEN <<L>>
    ELSE IF L <= 12480 THEN <<193 + ((L - 193) \div 256), (L - 193) % 256>>
    ELSE <<241 + ((L - 12481) \div 65536), ((L - 12481) \div 256) % 256, (L - 12481) % 256>>

\* C3: for every length L in 0..918744 _encode_variable_length_prefix(L) returns
\* the reference encoding: one byte up to 192, two bytes from 193 to 12480, three
\* bytes from 12481 to 918744; 192, 193, 12480, 12481 and 918744 give prefixes of
\* 1, 2, 2, 3 and 3 bytes.
C3_PrefixIsReference ==
    (pc # "start" /\ length <= 918744) =>
        /\ prefix.err = NoError
        /\ prefix.bytes = ReferencePrefix(length)
        /\ (length = 192 => Len(prefix.bytes) = 1)
        /\ (length \in {193, 12480} => Len(prefix.bytes) = 2)
        /\ (length \in {12481, 918744} => Len(prefix.bytes) = 3)

C3_Witness ==
    /\ pc = "prefixed"
    /\ length = 12481
    /\ prefix.bytes = <<241, 0, 0>>

\* C4: for every length above 918744 _encode_variable_length_prefix raises and
\* returns no prefix, and write_length_encoded of a value of that length fails
\* with the same error; for every length in 0..918744 neither fails.
C4_TooLongFails ==
    /\ (pc # "start" /\ length > 918744) =>
           (prefix.err.exc = "ValueError" /\ prefix.bytes = <<>>)
    /\ (pc # "start" /\ length <= 918744) => prefix.err = NoError
    /\ (pc = "written" /\ length > 918744) =>
           (written.err = prefix.err /\ written.err.exc = "ValueError" /\ written.sinkLen = 0)
    /\ (pc = "written" /\ length <= 918744) => written.err = NoError

C4_Witness ==
    /\ pc = "written"
    /\ length = 918745
    /\ written.err.exc = "ValueError"

(***************************************************************************)
(* Measuring the bytes of an object: the fields it holds, in byte order.   *)
(***************************************************************************)
RECURSIVE FieldsFrom(_, _)

\* The <<field, value bytes>> pairs of an object's bytes from cursor pos on;
\* <<"malformed">> closes the list where the bytes cannot be read.
FieldsFrom(buf, pos) ==
    IF IsEnd(buf, pos) THEN <<>>
    ELSE LET f == ReadField(buf, pos)
         IN  IF f.err # NoError THEN <<"malformed">>
             ELSE LET v == ReadFieldValue(buf, f.pos, f.field)
                  IN  IF v.err # NoError THEN <<"malformed">>
                      ELSE <<<<f.field, v.bytes>>>> \o FieldsFrom(buf, v.pos)

FieldsOf(bytes) == FieldsFrom(bytes, 0)

WellFormed(bytes) ==
    LET fs == FieldsOf(bytes) IN \A i \in 1..Len(fs) : fs[i] # "malformed"

\* (type_code, field_code) of f before that of g
Before(f, g) ==
    \/ f.type_code < g.type_code
    \/ f.type_code = g.type_code /\ f.field_code < g.field_code

RECURSIVE StrictlyAscending(_)

\* The fields of these bytes are in strictly ascending (type_code, field_code)
\* order, and so are the fields of every nested object.
StrictlyAscending(bytes) ==
    LET fs == FieldsOf(bytes)
    IN  /\ WellFormed(bytes)
        /\ \A i \in 1..(Len(fs) - 1) : Before(fs[i][1], fs[i + 1][1])
        /\ \A i \in 1..Len(fs) :
               fs[i][1].type = "SerializedDict" => StrictlyAscending(fs[i][2])

FieldNamesOf(bytes) == {FieldsOf(bytes)[i][1].name : i \in 1..Len(FieldsOf(bytes))}

\* The insertion orders of a dict.
Orders(d) ==
    {[i \in 1..Len(d) |-> d[p[i]]] :
        p \in {q \in [1..Len(d) -> 1..Len(d)] : \A i, j \in 1..Len(d) : i # j => q[i] # q[j]}}

IsXAddressValue(v) == v.k = "str" /\ IsValidXAddress(v.s)

XTag(v) == XAddressToClassicAddress(v.s)[3]

XClassic(v) == XAddressToClassicAddress(v.s)[2]

IsTaggedX(v) == IsXAddressValue(v) /\ XTag(v) # NoneV

HasNonNull(d, key) == DictHas(d, key) /\ DictGet(d, key) # NoneV

(***************************************************************************)
(* Canonical order: C1, C2                                                 *)
(***************************************************************************)
\* C1: every insertion order of the dict from_value was called on yields the
\* same bytes, or fails too.
C1_OrderIndependent ==
    pc = "encoded" =>
        \A other \in Orders(value) :
            LET again == FromValue(other, only_signing)
            IN  /\ (again.err = NoError) <=> (result.err = NoError)
                /\ again.bytes = result.bytes

\* C2: the bytes from_value returns hold exactly the surviving fields, each
\* once, in strictly ascending (type_code, field_code) order, whatever the
\* insertion order of the dict; so do the bytes of its nested objects.
C2_AscendingOrdinals ==
    (pc = "encoded" /\ result.err = NoError) =>
        LET surviving == FilterSigning(SurvivingFields(DecodeXAddresses(value).d),
                                       only_signing)
        IN  /\ StrictlyAscending(result.bytes)
            /\ FieldNamesOf(result.bytes) = {surviving[i].name : i \in 1..Len(surviving)}
            /\ Len(FieldsOf(result.bytes)) = Len(surviving)

C2_Witness ==
    /\ pc = "encoded"
    /\ result.err = NoError
    /\ Len(value) = 4
    /\ value[1][1] = "Account" /\ value[2][1] = "Fee"
    /\ value[3][1] = "Sequence" /\ value[4][1] = "TransactionType"
    /\ Len(FieldsOf(result.bytes)) = 4
    /\ FieldsOf(result.bytes)[1][1].name = "TransactionType"
    /\ FieldsOf(result.bytes)[2][1].name = "Sequence"
    /\ FieldsOf(result.bytes)[3][1].name = "Fee"
    /\ FieldsOf(result.bytes)[4][1].name = "Account"

(***************************************************************************)
(* X-addresses and tags: C5, C6, C7                                        *)
(***************************************************************************)
\* The tag field an X-address under `key` populates.
TagFieldOf(key) == IF key = "Account" THEN "SourceTag" ELSE "DestinationTag"

\* Entry i is a tagged X-address under Account or Destination whose tag field
\* the dict also sets to a non-null value.
Conflicts(d, i) ==
    /\ d[i][1] \in {"Account", "Destination"}
    /\ IsTaggedX(d[i][2])
    /\ HasNonNull(d, TagFieldOf(d[i][1]))

ConflictError(key) ==
    IF key = "Account"
    THEN Raise("XRPLBinaryCodecException", <<"Cannot have Account X-Address and SourceTag">>)
    ELSE Raise("XRPLBinaryCodecException",
               <<"Cannot have Destination X-Address and DestinationTag">>)

\* Entry i is a tagged X-address under a field other than Account and Destination.
Ambiguous(d, i) ==
    /\ d[i][1] \notin {"Account", "Destination"}
    /\ IsTaggedX(d[i][2])

AmbiguousError(key) ==
    Raise("XRPLBinaryCodecException", <<key, "cannot have an associated tag">>)

\* Entry i is an enumerated-code field whose value is no name of its table.
BadEnum(d, i) ==
    \/ d[i][1] = "TransactionType" /\ EnumCode(TransactionTypeCodes, d[i][2]).err # NoError
    \/ d[i][1] = "TransactionResult" /\ EnumCode(TransactionResultCodes, d[i][2]).err # NoError
    \/ d[i][1] = "LedgerEntryType" /\ EnumCode(LedgerEntryTypeCodes, d[i][2]).err # NoError

\* Entry i makes from_value's first loop raise when the loop reaches it.
Raises(d, i) == Conflicts(d, i) \/ Ambiguous(d, i) \/ (~IsXAddressValue(d[i][2]) /\ BadEnum(d, i))

\* C5 as stated: a tagged X-address under Account (Destination) together with a
\* non-null SourceTag (DestinationTag) makes from_value fail with the
\* conflicting-tag error and return no bytes.
C5_ConflictingTagAlways ==
    (pc = "encoded" /\ \E i \in 1..Len(value) : Conflicts(value, i)) =>
        /\ result.bytes = <<>>
        /\ result.err \in {ConflictError("Account"), ConflictError("Destination")}

\* The first entry, in insertion order, at which from_value's first loop raises.
FirstRaise(d) == CHOOSE i \in 1..Len(d) : Raises(d, i) /\ \A j \in 1..(i - 1) : ~Raises(d, j)

\* What entry i raises.
ErrorAt(d, i) ==
    IF Conflicts(d, i) THEN ConflictError(d[i][1])
    ELSE IF Ambiguous(d, i) THEN AmbiguousError(d[i][1])
    ELSE Raise("KeyError", <<"unknown name">>)

\* C5 as amended: with such a pair in the dict from_value always fails and
\* returns no bytes, whether or not the two tags are equal and whatever the
\* key order; the error is the one of the first entry, in insertion order,
\* that raises: the conflicting-tag error of the pair unless an entry before
\* the X-address raises first.
C5_ConflictingTagUnlessEarlier ==
    (pc = "encoded" /\ \E i \in 1..Len(value) : Conflicts(value, i)) =>
        /\ result.bytes = <<>>
        /\ result.err # NoError
        /\ result.err = ErrorAt(value, FirstRaise(value))
        /\ Conflicts(value, FirstRaise(value)) =>
               result.err = ConflictError(value[FirstRaise(value)][1])

C5_Witness ==
    /\ pc = "encoded"
    /\ Len(value) = 3
    /\ value[1] = <<"SourceTag", IntV(7)>>
    /\ value[3] = <<"Account", StrV("X-Alice-tag7")>>
    /\ result.err = ConflictError("Account")
    /\ result.bytes = <<>>

\* C6: a tagged X-address under Account (Destination) in a dict whose SourceTag
\* (DestinationTag) is absent or None: from_value succeeds and the decoded
\* object holds the classic address under the field and the tag under its
\* tag field.
C6_TagExposed ==
    (pc = "json" /\ ~\E i \in 1..Len(value) : Raises(value, i)) =>
        \A i \in 1..Len(value) :
            (/\ value[i][1] \in {"Account", "Destination"}
             /\ IsTaggedX(value[i][2])
             /\ ~HasNonNull(value, TagFieldOf(value[i][1]))) =>
                /\ json.err = NoError
                /\ DictHas(json.d, value[i][1])
                /\ DictGet(json.d, value[i][1]) = StrV(XClassic(value[i][2]))
                /\ DictHas(json.d, TagFieldOf(value[i][1]))
                /\ DictGet(json.d, TagFieldOf(value[i][1])) = XTag(value[i][2])

\* C7 as stated: a tagged X-address under a field other than Account and
\* Destination makes from_value fail with the ambiguous-tag error.
C7_AmbiguousTagAlways ==
    pc = "encoded" =>
        \A i \in 1..Len(value) :
            Ambiguous(value, i) => result.err = AmbiguousError(value[i][1])

\* The dict with the value of entry i replaced by v.
WithValue(d, i, v) == [j \in 1..Len(d) |-> IF j = i THEN <<d[j][1], v>> ELSE d[j]]

\* C7 as amended: a tagged X-address under a field other than Account and
\* Destination makes from_value fail and return no bytes; the error is the one
\* of the first entry, in insertion order, that raises: the ambiguous-tag
\* error naming that field unless an entry before it raises first.  An untagged X-address under such a field: whenever
\* from_value succeeds, its bytes are those of the same dict with the classic
\* address in place of the X-address, and no tag field is added.
C7_AmbiguousTagUnlessEarlier ==
    pc = "encoded" =>
        \A i \in 1..Len(value) :
            /\ Ambiguous(value, i) =>
                   /\ result.err # NoError
                   /\ result.bytes = <<>>
                   /\ result.err = ErrorAt(value, FirstRaise(value))
                   /\ FirstRaise(value) = i => result.err = AmbiguousError(value[i][1])
            /\ (/\ value[i][1] \notin {"Account", "Destination"}
                /\ IsXAddressValue(value[i][2])
                /\ ~IsTaggedX(value[i][2])
                /\ result.err = NoError) =>
                   /\ result = FromValue(WithValue(value, i, StrV(XClassic(value[i][2]))),
                                         only_signing)
                   /\ \A tagField \in {"SourceTag", "DestinationTag"} :
                          tagField \in FieldNamesOf(result.bytes) =>
                              \E j \in 1..Len(value) :
                                  \/ value[j][1] = tagField
                                  \/ value[j][1] \in {"Account", "Destination"}
                                     /\ IsTaggedX(value[j][2])
                                     /\ TagFieldOf(value[j][1]) = tagField
                   /\ LET fs == FieldsOf(result.bytes)
                      IN  \A n \in 1..Len(fs) :
                              fs[n][1].name = value[i][1] =>
                                  fs[n][2] = DecodeClassicAddress(XClassic(value[i][2])).bytes

C7_Witness ==
    /\ pc = "encoded"
    /\ Len(value) = 2
    /\ value[1] = <<"Sequence", IntV(5)>>
    /\ value[2] = <<"RegularKey", StrV("X-Bob-tag9")>>
    /\ result.err = AmbiguousError("RegularKey")

C7_WitnessUntagged ==
    /\ pc = "encoded"
    /\ result.err = NoError
    /\ DictHas(value, "RegularKey")
    /\ DictGet(value, "RegularKey") = StrV("X-Alice")
    /\ "RegularKey" \in FieldNamesOf(result.bytes)

(***************************************************************************)
(* The signing encoding and the round trips: C8, C9, C10                   *)
(***************************************************************************)
\* The dict without its entries whose field has is_signing = false.
WithoutNonSigning(d) ==
    SelectSeq(d, LAMBDA e : ~(IsRegistered(e[1]) /\ ~GetFieldInstance(e[1]).is_signing))

MarkerLen(tail) == IF tail = <<>> THEN 0 ELSE 1

\* C9: from_parser over canonical bytes b (the bytes from_value returned),
\* alone or followed by the object's end marker and more, returns exactly b:
\* the bytes it wrote are the bytes it consumed, without the end marker that
\* stopped it.
C9_ParserReproducesBytes ==
    pc = "reparsed" =>
        /\ reparsed.err = NoError
        /\ reparsed.bytes = result.bytes
        /\ \E tail \in Tails :
               /\ buffer = result.bytes \o tail
               /\ reparsed.pos = Len(result.bytes) + MarkerLen(tail)
        /\ SubSeq(buffer, 1, Len(result.bytes)) = reparsed.bytes

C9_Witness ==
    /\ pc = "reparsed"
    /\ DictHas(value, "Memo")
    /\ DictHas(value, "Account")
    /\ ~only_signing
    /\ Len(buffer) = Len(result.bytes) + 1
    /\ reparsed.bytes = result.bytes
    /\ reparsed.pos = Len(buffer)

RECURSIVE StructurallyValid(_)

\* Every key registered and serialized, no None, no X-address, the enumerated
\* codes given by a name of their table; nested dicts alike.
StructurallyValid(d) ==
    \A i \in 1..Len(d) :
        /\ IsRegistered(d[i][1])
        /\ GetFieldInstance(d[i][1]).is_serialized
        /\ d[i][2] # NoneV
        /\ ~IsXAddressValue(d[i][2])
        /\ ~BadEnum(d, i)
        /\ d[i][2].k = "dict" => StructurallyValid(d[i][2].d)

RECURSIVE ClassicAccounts(_)

\* Every AccountID field holds a classic address.
ClassicAccounts(d) ==
    \A i \in 1..Len(d) :
        /\ (IsRegistered(d[i][1]) /\ GetFieldInstance(d[i][1]).type = "AccountID") =>
               (d[i][2].k = "str" /\ IsClassicAddress(d[i][2].s))
        /\ d[i][2].k = "dict" => ClassicAccounts(d[i][2].d)

RECURSIVE Canonical(_)

\* The dict with its keys in canonical field order, nested dicts alike.
Canonical(d) ==
    LET n == Len(d)
        rank(i) == 1 + Cardinality({j \in 1..n :
                          Before(GetFieldInstance(d[j][1]), GetFieldInstance(d[i][1]))})
        at(r) == CHOOSE i \in 1..n : rank(i) = r
    IN  [r \in 1..n |->
            <<d[at(r)][1],
              IF d[at(r)][2].k = "dict"
              THEN Dict(Canonical(d[at(r)][2].d))
              ELSE d[at(r)][2]>>]

\* C10 as stated: from_value(x).to_json() is x with its keys in canonical
\* field order, for every structurally valid x.
C10_JsonRoundTrip ==
    (pc = "json" /\ ~only_signing /\ StructurallyValid(value)) =>
        (json.err = NoError /\ json.d = Canonical(value))

\* C10 as amended: from_value(x).to_json() is x with its keys in canonical
\* field order, for every structurally valid x whose AccountID fields hold
\* classic addresses (an account given as 40 hex digits comes back as its
\* classic address).
C10_JsonRoundTripClassic ==
    (pc = "json" /\ ~only_signing /\ StructurallyValid(value) /\ ClassicAccounts(value)) =>
        (json.err = NoError /\ json.d = Canonical(value))

C10_Witness ==
    /\ pc = "json"
    /\ ~only_signing
    /\ StructurallyValid(value)
    /\ ClassicAccounts(value)
    /\ Len(value) = 3
    /\ value[1][1] = "Memo"
    /\ value[2][1] = "Account"
    /\ value[3][1] = "TransactionType"
    /\ json.d # value
    /\ json.d = Canonical(value)

(***************************************************************************)
(* The end marker of nested objects: C11                                   *)
(***************************************************************************)
RECURSIVE ObjectEnd(_, _, _)

\* The cursor after the object that starts at pos: a nested object runs to its
\* end marker, which is consumed; a top-level object runs to the end of the
\* buffer and holds no end marker of its own.  -1 where the bytes are not laid
\* out that way: a nested object without its marker, a marker at top level.
ObjectEnd(buf, pos, nested) ==
    IF IsEnd(buf, pos)
    THEN IF nested THEN -1 ELSE pos
    ELSE LET f == ReadField(buf, pos)
         IN  IF f.err # NoError THEN -1
             ELSE IF f.field.name = _OBJECT_END_MARKER
             THEN IF nested THEN f.pos ELSE -1
             ELSE IF f.field.type = "SerializedDict"
             THEN LET inner == ObjectEnd(buf, f.pos, TRUE)
                  IN  IF inner = -1 THEN -1 ELSE ObjectEnd(buf, inner, nested)
             ELSE LET v == ReadFieldValue(buf, f.pos, f.field)
                  IN  IF v.err # NoError THEN -1 ELSE ObjectEnd(buf, v.pos, nested)

RECURSIVE SizeOf(_)

\* The number of bytes the fields of an object account for: per field its
\* header, its length prefix if it is variable-length encoded, its value, and
\* one end marker if and only if its type is a nested object.
SizeOf(bytes) ==
    LET fs == FieldsOf(bytes)
        size(fv) ==
            Len(fv[1].header)
            + (IF fv[1].is_variable_length_encoded
               THEN Len(ReferencePrefix(Len(fv[2]))) ELSE 0)
            + (IF fv[1].type = "SerializedDict" THEN SizeOf(fv[2]) + 1 ELSE Len(fv[2]))
        sum[i \in 0..Len(fs)] == IF i = 0 THEN 0 ELSE sum[i - 1] + size(fs[i])
    IN  sum[Len(fs)]

\* C11: in the bytes from_value returns and in the bytes from_parser returns,
\* the byte 0xE1 follows the value of every field whose type is a nested
\* object and no other field, at every nesting level, and the top-level object
\* has no end marker of its own: the bytes are exactly their fields, one
\* marker per nested object and nothing else.
C11_EndMarkerAfterNested ==
    /\ (pc = "encoded" /\ result.err = NoError) =>
           /\ WellFormed(result.bytes)
           /\ ObjectEnd(result.bytes, 0, FALSE) = Len(result.bytes)
           /\ SizeOf(result.bytes) = Len(result.bytes)
    /\ (pc = "reparsed" /\ reparsed.err = NoError) =>
           /\ WellFormed(reparsed.bytes)
           /\ ObjectEnd(reparsed.bytes, 0, FALSE) = Len(reparsed.bytes)
           /\ SizeOf(reparsed.bytes) = Len(reparsed.bytes)

C11_Witness ==
    /\ pc = "reparsed"
    /\ value = <<<<"TransactionResult", StrV("tesSUCCESS")>>,
                 <<"Memo", Dict(<<<<"Memo", Dict(<<<<"MemoData", Hex(<<14, 1>>)>>>>)>>>>)>>>>
    /\ result.bytes = <<234, 234, 125, 1, 225, 225, 225, 3, 16, 0>>
    /\ buffer = result.bytes \o <<225>>
    /\ reparsed.bytes = result.bytes

(***************************************************************************)
(* The enumerated codes: C12                                               *)
(***************************************************************************)
\* The table of an enumerated-code field.
EnumTableOf(key) ==
    IF key = "TransactionType" THEN TransactionTypeCodes
    ELSE IF key = "TransactionResult" THEN TransactionResultCodes
    ELSE LedgerEntryTypeCodes

EnumFields == {"TransactionType", "TransactionResult", "LedgerEntryType"}

\* The registry's code of a name of the table.
CodeOfName(table, name) == (CHOOSE e \in table : e[1] = name)[2]

\* The value bytes of the field `name` in an object's bytes.
FieldBytes(bytes, name) ==
    LET fs == FieldsOf(bytes)
    IN  fs[CHOOSE i \in 1..Len(fs) : fs[i][1].name = name][2]

\* C12: for TransactionType, TransactionResult and LedgerEntryType from_value
\* replaces the name by the registry's code before the typed value is built,
\* so the field's bytes are the code as a big-endian integer of the field's
\* width, and to_json gives the name back; the value of every other field
\* goes through both translations unchanged: its bytes are those of its
\* type's from_value on the given value and its JSON is its type's to_json.
C12_EnumTranslated ==
    (pc \in {"encoded", "json"} /\ ~only_signing
        /\ ~\E i \in 1..Len(value) : BadEnum(value, i)) =>
        /\ result.err = NoError
        /\ \A i \in 1..Len(value) :
               LET key == value[i][1]
                   field == GetFieldInstance(key)
                   translated == DictGet(DecodeXAddresses(value).d, key)
               IN  IF key \in EnumFields
                   THEN LET code == CodeOfName(EnumTableOf(key), value[i][2].s)
                        IN  /\ translated = IntV(code)
                            /\ FieldBytes(result.bytes, key)
                                   = BigEndian(code, UIntWidth(field.type))
                            /\ pc = "json" =>
                                   /\ json.err = NoError
                                   /\ DictGet(json.d, key) = value[i][2]
                   ELSE /\ translated = value[i][2]
                        /\ FieldBytes(result.bytes, key)
                               = TypeFromValue(field.type, value[i][2]).bytes
                        /\ pc = "json" =>
                               DictGet(json.d, key)
                                   = TypeToJson(field.type, FieldBytes(result.bytes, key)).val

C12_Witness ==
    /\ pc = "json"
    /\ value = <<<<"Sequence", IntV(7)>>, <<"TransactionType", StrV("OfferCreate")>>,
                 <<"TransactionResult", StrV("tecCLAIM")>>>>
    /\ result.bytes = <<18, 0, 7, 36, 0, 0, 0, 7, 3, 16, 100>>
    /\ json.d = <<<<"TransactionType", StrV("OfferCreate")>>, <<"Sequence", IntV(7)>>,
                  <<"TransactionResult", StrV("tecCLAIM")>>>>

(***************************************************************************)
(* Errors of the typed values: C13                                         *)
(***************************************************************************)
\* from_value on the dict d ended as `outcome`: if building the typed value of
\* a field failed, the error is that failure with the field's name put in
\* front of its detail.
NamesOffendingField(d, only_sign, outcome) ==
    LET decoded == DecodeXAddresses(d)
        keys == FilterSigning(SortByOrdinal(SurvivingFields(decoded.d)), only_sign)
        built(i) == TypeFromValue(keys[i].type, DictGet(decoded.d, keys[i].name))
        failing == {i \in 1..Len(keys) : built(i).err # NoError}
        first == CHOOSE i \in failing : \A j \in failing : i <= j
    IN  (decoded.err = NoError /\ failing # {}) =>
            /\ outcome.err.exc = built(first).err.exc
            /\ outcome.err.msg = <<"Error processing", keys[first].name>> \o built(first).err.msg

\* C13: whenever building a field's typed value fails inside from_value, the
\* error that reaches the caller names the field and keeps the detail of the
\* original failure, whatever the type's from_value raised (the address
\* codec's failure on a base58 string too), at every nesting level.
C13_ErrorNamesField ==
    pc = "encoded" =>
        /\ NamesOffendingField(value, only_signing, result)
        /\ \A i \in 1..Len(value) :
               value[i][2].k = "dict" =>
                   NamesOffendingField(value[i][2].d, FALSE, FromValue(value[i][2].d, FALSE))

(***************************************************************************)
(* from_parser on buffers in any field order: C14                          *)
(***************************************************************************)
\* C14: the bytes from_parser returns are canonical for every buffer it
\* parses: their fields are in ascending (type_code, field_code) order,
\* whatever the order of the fields in the buffer.
C14_ParserCanonicalizes ==
    (pc = "reparsed" /\ reparsed.err = NoError) => StrictlyAscending(reparsed.bytes)

(***************************************************************************)
(* safe_sign_transaction: C15                                              *)
(***************************************************************************)
\* The JSON of the transaction with the wallet's public key, before signing.
KeyedJson ==
    DictSet(TransactionJsonToBinaryCodecForm(signing.transaction),
            "SigningPubKey", signing.wallet.pub_key)

IsSigningField(fv) == fv[1].is_signing

\* C15: the signature is computed over encode_for_signing of the JSON that
\* already holds the wallet's SigningPubKey and not yet the signature of this
\* call; TxnSignature is set only after sign has returned; the blob returned
\* is encode of that same JSON plus TxnSignature, so the blob's signing
\* fields are, byte for byte and in order, the fields of the signed preimage.
C15_SignedPreimageMatchesBlob ==
    /\ signing.pc \in {"keyed", "serialized", "signed"} =>
           /\ signing.transaction_json = KeyedJson
           /\ DictGet(signing.transaction_json, "SigningPubKey") = signing.wallet.pub_key
           /\ DictHas(signing.transaction_json, "TxnSignature") =>
                  /\ DictHas(signing.transaction, "txn_signature")
                  /\ DictGet(signing.transaction_json, "TxnSignature")
                         = DictGet(signing.transaction, "txn_signature")
    /\ signing.pc \in {"serialized", "signed", "attached", "returned"} =>
           /\ signing.serialized_for_signing = EncodeForSigning(KeyedJson).hex
           /\ "TxnSignature" \notin FieldNamesOf(FromHex(signing.serialized_for_signing))
           /\ FieldBytes(FromHex(signing.serialized_for_signing), "SigningPubKey")
                  = FromHex(signing.wallet.pub_key.h)
    /\ signing.pc \in {"signed", "attached", "returned"} =>
           signing.signature = Sign(FromHex(signing.serialized_for_signing),
                                    signing.wallet.priv_key)
    /\ signing.pc \in {"attached", "returned"} =>
           signing.transaction_json = DictSet(KeyedJson, "TxnSignature", signing.signature)
    /\ signing.pc = "returned" =>
           LET blob == FromHex(signing.tx_blob)
               preimage == FromHex(signing.serialized_for_signing)
           IN  /\ signing.tx_blob = Encode(DictSet(KeyedJson, "TxnSignature",
                                                   signing.signature)).hex
               /\ SelectSeq(FieldsOf(blob), IsSigningField) = FieldsOf(preimage)
               /\ FieldBytes(blob, "TxnSignature") = FromHex(signing.signature.h)
               /\ Len(FieldsOf(blob)) = Len(FieldsOf(preimage)) + 1

C15_Witness ==
    /\ signing.pc = "returned"
    /\ signing.transaction = <<<<"txn_signature", Hex(<<13, 14>>)>>,
                               <<"account", StrV("X-Alice-tag7")>>,
                               <<"signing_pub_key", Hex(<<15, 15>>)>>,
                               <<"sequence", IntV(5)>>>>
    /\ signing.wallet.priv_key = 17
    /\ FieldNamesOf(FromHex(signing.serialized_for_signing))
           = {"SourceTag", "Sequence", "SigningPubKey", "Account"}
    /\ FieldNamesOf(FromHex(signing.tx_blob))
           = {"SourceTag", "Sequence", "SigningPubKey", "TxnSignature", "Account"}
    /\ FieldBytes(FromHex(signing.tx_blob), "TxnSignature") # <<222>>

(***************************************************************************)
(* The length prefix read back: C16                                        *)
(***************************************************************************)
\* The size of a prefix as its first byte tells it.
PrefixSize(byte1) == IF byte1 <= 192 THEN 1 ELSE IF byte1 <= 240 THEN 2 ELSE 3

\* The decode rule symmetric to the encoding, on a whole prefix.
DecodePrefix(p) ==
    IF PrefixSize(p[1]) = 1 THEN p[1]
    ELSE IF PrefixSize(p[1]) = 2 THEN 193 + (p[1] - 193) * 256 + p[2]
    ELSE 12481 + (p[1] - 241) * 65536 + p[2] * 256 + p[3]

\* C16: for every length L in 0..918744 the prefix is uniquely decodable: its
\* bytes lie in 0..255, its first byte is at most 254 and alone tells its size
\* (up to 192 one byte, 193..240 two, 241..254 three), the decode rule applied
\* to it returns exactly L, and the next length has another prefix.
C16_PrefixDecodesToLength ==
    (pc # "start" /\ length <= 918744) =>
        /\ prefix.err = NoError
        /\ Len(prefix.bytes) \in 1..3
        /\ \A i \in 1..Len(prefix.bytes) : prefix.bytes[i] \in 0..255
        /\ prefix.bytes[1] <= 254
        /\ PrefixSize(prefix.bytes[1]) = Len(prefix.bytes)
        /\ DecodePrefix(prefix.bytes) = length
        /\ length < 918744 => EncodeVariableLengthPrefix(length + 1).bytes # prefix.bytes

C16_Witness ==
    /\ pc = "prefixed"
    /\ length = 12480
    /\ prefix.bytes = <<240, 255>>
    /\ DecodePrefix(<<240, 255>>) = 12480

(***************************************************************************)
(* Entries that are dropped: C17                                           *)
(***************************************************************************)
\* The dict without the entries whose key has no registry entry, whose value
\* is None, or whose field is not serialized.
WithoutDropped(d) ==
    SelectSeq(d, LAMBDA e : /\ IsRegistered(e[1])
                            /\ e[2] # NoneV
                            /\ GetFieldInstance(e[1]).is_serialized)

\* C17: entries whose key has no registry entry, whose value is None or whose
\* field is not serialized contribute no bytes: from_value(x) returns what
\* from_value returns on x with those entries removed.
C17_DroppedEntriesContributeNothing ==
    pc = "encoded" => FromValue(WithoutDropped(value), only_signing) = result

(***************************************************************************)
(* The bytesink: C18, C19                                                  *)
(***************************************************************************)
IsPrefix(a, b) == Len(a) <= Len(b) /\ SubSeq(b, 1, Len(a)) = a

\* The call writes a length prefix.
LengthEncodedCall(call) ==
    \/ call.op = "write_length_encoded"
    \/ /\ call.op = "write_field_and_value"
       /\ GetFieldInstance(call.field).is_variable_length_encoded

\* What a call that returns is to have written: for append its argument, for
\* write_length_encoded the length prefix then the value, for
\* write_field_and_value the header, the length prefix if the field is
\* variable-length encoded, then the value.
PieceOfCall(call) ==
    IF call.op = "append" THEN call.bytes_object
    ELSE IF call.op = "write_length_encoded"
    THEN ReferencePrefix(call.value.len) \o BytesOf(call.value)
    ELSE LET field == GetFieldInstance(call.field)
         IN  IF field.is_variable_length_encoded
             THEN (field.header \o ReferencePrefix(call.value.len)) \o BytesOf(call.value)
             ELSE field.header \o BytesOf(call.value)

\* What a call that raised over the length of its value may have written: the
\* pieces that come before the length prefix, in order.
LeadingPiecesOfCall(call) ==
    IF call.op = "write_field_and_value"
    THEN {<<>>, GetFieldInstance(call.field).header}
    ELSE {<<>>}

\* The bytes of the sink that call i of the history wrote.
ChunkOfCall(i) ==
    SubSeq(serializer.bytesink,
           (IF i = 1 THEN 0 ELSE serializer.calls[i - 1].end) + 1,
           serializer.calls[i].end)

\* C18: across any sequence of append, write_length_encoded and
\* write_field_and_value calls the bytesink only grows by appending: the sink
\* before the last call is a prefix of the sink after it, and the sink is the
\* concatenation, in call order, of what the calls wrote: for a call that
\* returned its whole piece (for a field: header, then length prefix if
\* variable-length encoded, then value), for a call that raised the pieces
\* before the length prefix it could not compute.
C18_SinkAppendOnly ==
    LET calls == serializer.calls
        n == Len(calls)
    IN  /\ IsPrefix(serializer.before, serializer.bytesink)
        /\ n > 0 => calls[n].end = Len(serializer.bytesink)
        /\ \A i \in 1..n :
               /\ (IF i = 1 THEN 0 ELSE calls[i - 1].end) <= calls[i].end
               /\ calls[i].err = NoError => ChunkOfCall(i) = PieceOfCall(calls[i])
               /\ calls[i].err # NoError => ChunkOfCall(i) \in LeadingPiecesOfCall(calls[i])
               /\ calls[i].err # NoError <=>
                      (LengthEncodedCall(calls[i]) /\ calls[i].value.len > 918744)

C18_Witness ==
    /\ Len(serializer.calls) = 2
    /\ serializer.calls[1].op = "write_field_and_value"
    /\ serializer.calls[1].field = "SigningPubKey"
    /\ serializer.calls[2].op = "write_length_encoded"
    /\ serializer.calls[2].value.len = 193
    /\ serializer.before = <<115, 2, 3, 3>>
    /\ SubSeq(serializer.bytesink, 1, 8) = <<115, 2, 3, 3, 193, 0, 7, 7>>
    /\ Len(serializer.bytesink) = 4 + 2 + 193

\* C19: a write_field_and_value that fails because its value is longer than
\* 918744 bytes leaves the bytesink exactly as it found it: no header, no
\* length prefix, no value byte.
C19_SinkUnchangedOnFailure ==
    LET n == Len(serializer.calls)
    IN  (/\ n > 0
         /\ serializer.calls[n].op = "write_field_and_value"
         /\ serializer.calls[n].err # NoError) =>
            serializer.bytesink = serializer.before

(***************************************************************************)
(* AccountID and its JSON form: C20                                        *)
(***************************************************************************)
\* The string from_value was given is one it accepts.
AcceptedValue(v) ==
    \/ v.k = "str" /\ (v.s = "" \/ IsClassicAddress(v.s))
    \/ v.k = "hex" /\ Len(v.h) = 40

\* C20 as stated: for every 20-byte buffer b, from_value(AccountID(b).to_json())
\* holds b; for every string s from_value accepts (classic address, 40 hex
\* digits, the empty string), from_value(s).to_json() is s.
C20_AccountJsonRoundTrip ==
    /\ (account.pc = "reread" /\ account.from = "buffer" /\ account.given_buffer # <<>>) =>
           (account.reread.err = NoError /\ account.reread.bytes = account.given_buffer)
    /\ (account.pc \in {"json", "reread"} /\ account.from = "value") =>
           account.json = account.given_value

\* C20 as amended: for every 20-byte buffer b, from_value(AccountID(b).to_json())
\* holds b.  from_value accepts a classic address, 40 upper-case hex digits
\* and the empty string (20 zero bytes) and nothing else of the model; to_json
\* always returns the classic address of the buffer: it reproduces s when s
\* is a classic address, and for hex digits and the empty string it returns
\* the classic address of the same 20 bytes, which from_value reads back to
\* the same buffer.
C20_AccountJsonIsClassicAddress ==
    /\ (account.pc = "reread" /\ account.from = "buffer") =>
           /\ account.reread.err = NoError
           /\ account.reread.bytes = account.built.bytes
           /\ account.given_buffer # <<>> => account.reread.bytes = account.given_buffer
    /\ (account.pc # "start" /\ account.from = "value") =>
           LET v == account.given_value
           IN  /\ account.built.err = NoError <=> AcceptedValue(v)
               /\ (v.k = "hex" /\ Len(v.h) = 40) => account.built.bytes = FromHex(v.h)
               /\ v = StrV("") => account.built.bytes = [i \in 1..20 |-> 0]
    /\ (account.pc \in {"json", "reread"} /\ account.from = "value") =>
           LET v == account.given_value
           IN  /\ account.json.k = "str"
               /\ IsClassicAddress(account.json.s)
               /\ (v.k = "str" /\ v.s # "") => account.json = v
               /\ (v.k = "hex" \/ v = StrV("")) => account.json # v
               /\ account.pc = "reread" =>
                      (account.reread.err = NoError
                          /\ account.reread.bytes = account.built.bytes)

C20_Witness ==
    /\ account.pc = "reread"
    /\ account.from = "value"
    /\ account.given_value = [k |-> "hex", h |-> ToHex(Payload(11))]
    /\ account.json = StrV("rBob")
    /\ account.reread.bytes = Payload(11)

(***************************************************************************)
(* The wallet's sequence number over several calls: C21                    *)
(***************************************************************************)
\* The calls on the wallet that have ended, oldest first: those followed by
\* another call, then the current one if it has returned or raised.
EndedCalls ==
    IF signing.pc \in {"returned", "raised"}
    THEN Append(signing.outcomes,
                [returned |-> signing.pc = "returned",
                 sequence |-> DictGet(signing.transaction, "sequence").n])
    ELSE signing.outcomes

IsReturned(call) == call.returned

\* C21: between calls, wallet.next_sequence_num is its initial value plus the
\* number of calls that returned a signed blob, a failed call leaving it
\* unchanged; so the transactions signed use consecutive sequence numbers
\* from the initial value on, with no repeat and no gap.
C21_SequenceCountsSignedBlobs ==
    signing.pc \in {"called", "returned", "raised"} =>
        LET signed == SelectSeq(EndedCalls, IsReturned)
        IN  /\ signing.wallet.next_sequence_num
                   = signing.initial_sequence_num + Len(signed)
            /\ \A i \in 1..Len(signed) :
                   signed[i].sequence = signing.initial_sequence_num + i - 1

(***************************************************************************)
(* SignerListSet._get_errors: C22                                          *)
(***************************************************************************)
SignerListErrorKeys == {"signer_list_set", "signer_quorum", "signer_entries"}

RECURSIVE WeightSum(_)

\* The sum of the entries' signer_weight.
WeightSum(entries) ==
    IF entries = <<>> THEN 0
    ELSE entries[1].signer_weight + WeightSum(Tail(entries))

\* (a) of C22: the list is being deleted
DeletesList(self) == self.signer_quorum = 0 /\ self.signer_entries = NoneV

\* (b) of C22: a well-formed list
SetsList(self) ==
    /\ self.signer_entries # NoneV
    /\ LET entries == self.signer_entries.l
       IN  /\ Len(entries) >= 1
           /\ Len(entries) <= 8
           /\ self.signer_quorum > 0
           /\ self.signer_quorum <= WeightSum(entries)
           /\ \A i, j \in 1..Len(entries) :
                  i # j => entries[i].account # entries[j].account
           /\ \A i \in 1..Len(entries) : entries[i].account # self.account

\* C22: SignerListSet._get_errors adds no signer-list error exactly when the
\* list is being deleted (signer_quorum == 0 and signer_entries is None) or
\* signer_entries has 1 to 8 entries, 0 < signer_quorum <= the sum of their
\* weights, and their accounts are pairwise distinct and differ from the
\* submitting account; in every other case at least one error is reported.
C22_SignerListErrorsExactly ==
    model.pc = "validated" =>
        /\ (DictKeys(model.errors) \cap SignerListErrorKeys = {})
               <=> (DeletesList(model.self) \/ SetsList(model.self))
        /\ (DeletesList(model.self) \/ SetsList(model.self)) <=>
               model.errors = SuperGetErrors

C22_Witness ==
    /\ model.pc = "validated"
    /\ model.self.account = "rAlice"
    /\ model.self.signer_quorum = 8
    /\ model.self.signer_entries # NoneV
    /\ Len(model.self.signer_entries.l) = 8
    /\ SetsList(model.self)
    /\ model.errors = <<>>

(***************************************************************************)
(* EscrowCreate._get_errors: C23                                           *)
(***************************************************************************)
\* C23: EscrowCreate._get_errors reports the EscrowCreate error exactly when
\* cancel_after and finish_after are both set and finish_after >=
\* cancel_after; a transaction with finish_after strictly before
\* cancel_after, or with either of them unset, passes.
C23_EscrowErrorExactly ==
    model.pc = "validated" =>
        LET cancel == model.self.cancel_after
            finish == model.self.finish_after
            both == cancel.k = "int" /\ finish.k = "int"
        IN  /\ DictHas(model.errors, "EscrowCreate") <=> (both /\ ~(finish.n < cancel.n))
            /\ (both /\ finish.n < cancel.n) => model.errors = SuperGetErrors
            /\ (cancel = NoneV \/ finish = NoneV) => model.errors = SuperGetErrors
            /\ model.errors # SuperGetErrors =>
                   model.errors = <<<<"EscrowCreate", "The finish_after time must be before the cancel_after time.">>>>

\* The transaction of the all-fields test has passed the check.
C23_Witness ==
    /\ model.pc = "validated"
    /\ model.self.cancel_after = IntV(533257958)
    /\ model.self.finish_after = IntV(533171558)
    /\ model.self.destination_tag = IntV(23480)
    /\ model.errors = <<>>

=============================================================================
